---------------------------- MODULE Spec2Model ----------------------------
(***************************************************************************)
(* German vocabulary game (word match + hangman): the word pool and its    *)
(* enrichment (WordEnricherRedis), the daily word-match puzzle             *)
(* (ContentManager, RedditContentManager, GameStorage) and the user's      *)
(* streak (router.post('/api/submit-result')).                              *)
(*                                                                         *)
(* Strings are sequences of one-character strings, so that toLowerCase,    *)
(* trim, split and charCodeAt are computed and not assumed.                *)
(***************************************************************************)
EXTENDS Integers, Sequences, FiniteSets, TLC

VARIABLES
    isInitialized,   \* WordEnricherRedis.isInitialized
    enrichedWords,   \* WordEnricherRedis.enrichedWords: tier -> sequence of entries
    redisWords,      \* the hashes german_words:{tier}: tier -> (word -> hint)
    wordBank,        \* the key wm:bank:de: <<>> when absent, else <<items>>
    puzzles,         \* the keys wm:puzzle:{seed}: a function whose domain is the stored seeds
    firstReturned,   \* history: seed -> <<>> or <<items the first getDailyPuzzle(seed) returned>>
    userStore,       \* the keys user:{id}:streak|maxStreak|lastPlayed, as stored strings
    requests,        \* the submit-result requests in flight: request -> its position and locals
    session,         \* the client's Hangman component: its game, its React state, its onComplete calls
    hangmanGames,    \* the keys hangman:game:{seed}: seed -> <<>> when absent, else <<game>>
    calls,           \* the word pool's calls in flight in one process: call -> its position and locals
    wordMatch,       \* the client's Game component (word match): its puzzle, its React state, its onComplete call
    last             \* history: the last operation, its arguments and what it returned

vars == <<isInitialized, enrichedWords, redisWords, wordBank, puzzles,
          firstReturned, userStore, requests, session, hangmanGames, calls, wordMatch, last>>

poolVars   == <<isInitialized, enrichedWords, redisWords>>
puzzleVars == <<wordBank, puzzles, firstReturned>>
streakVars == <<userStore, requests>>
hangmanVars == <<session, hangmanGames>>
callVars == <<calls>>
gameVars == <<wordMatch>>

-----------------------------------------------------------------------------
(* Strings *)

UpperLetters == <<"A","B","C","D","E","F","G","H","I","J","K","L","M",
                  "N","O","P","Q","R","S","T","U","V","W","X","Y","Z">>
LowerLetters == <<"a","b","c","d","e","f","g","h","i","j","k","l","m",
                  "n","o","p","q","r","s","t","u","v","w","x","y","z">>
Digits       == <<"0","1","2","3","4","5","6","7","8","9">>

\* the elements of a sequence
Range(s) == {s[i] : i \in 1..Len(s)}

IndexIn(c, s) == IF \E i \in 1..Len(s) : s[i] = c
                 THEN CHOOSE i \in 1..Len(s) : s[i] = c
                 ELSE 0

\* the characters the words and the seeds are written in
Alphabet == Range(UpperLetters) \cup Range(LowerLetters) \cup Range(Digits)
            \cup {" ", "-", ":"}

\* String.prototype.toLowerCase, one character
LowerCharOf == [c \in Alphabet |-> IF IndexIn(c, UpperLetters) > 0
                                   THEN LowerLetters[IndexIn(c, UpperLetters)]
                                   ELSE c]
LowerChar(c) == LowerCharOf[c]

\* String.prototype.toLowerCase
ToLowerCase(s) == [i \in 1..Len(s) |-> LowerChar(s[i])]

IsSpace(c) == c \in {" ", "\t", "\n"}

RECURSIVE TrimStart(_)
TrimStart(s) == IF s # <<>> /\ IsSpace(Head(s)) THEN TrimStart(Tail(s)) ELSE s

RECURSIVE TrimEnd(_)
TrimEnd(s) == IF s # <<>> /\ IsSpace(s[Len(s)])
              THEN TrimEnd(SubSeq(s, 1, Len(s) - 1))
              ELSE s

\* String.prototype.trim
Trim(s) == TrimEnd(TrimStart(s))

\* String.prototype.charCodeAt for the characters the seeds use
CharCodeOf == [c \in Alphabet |->
    IF IndexIn(c, Digits) > 0 THEN 47 + IndexIn(c, Digits)
    ELSE IF IndexIn(c, LowerLetters) > 0 THEN 96 + IndexIn(c, LowerLetters)
    ELSE IF IndexIn(c, UpperLetters) > 0 THEN 64 + IndexIn(c, UpperLetters)
    ELSE IF c = "-" THEN 45
    ELSE IF c = ":" THEN 58
    ELSE 32]
CharCode(c) == CharCodeOf[c]

\* Array.prototype.slice(0, n)
Slice(s, n) == SubSeq(s, 1, IF Len(s) < n THEN Len(s) ELSE n)

Min(a, b) == IF a < b THEN a ELSE b
Max(a, b) == IF a > b THEN a ELSE b

\* new Set(xs) spread back to an array: the first occurrence of each element, in order
RECURSIVE Dedup(_)
Dedup(s) == IF s = <<>> THEN <<>>
            ELSE LET r == Dedup(SubSeq(s, 1, Len(s) - 1))
                     x == s[Len(s)]
                 IN  IF x \in Range(r) THEN r ELSE Append(r, x)

\* Array.prototype.filter
RECURSIVE SelectSeqLen3(_)
SelectSeqLen3(s) == IF s = <<>> THEN <<>>
                    ELSE IF Len(Head(s)) >= 3
                         THEN <<Head(s)>> \o SelectSeqLen3(Tail(s))
                         ELSE SelectSeqLen3(Tail(s))

-----------------------------------------------------------------------------
(* The word pool: WordEnricherRedis, RandomWordsAPI, OpenThesaurusAPI *)

Tiers     == {"easy", "medium", "hard"}
TierOrder == <<"easy", "medium", "hard">>
NoTier    == "undefined"          \* addWord's difficulty argument left out

\* words the requests and the providers use
Apfel        == <<"A","p","f","e","l">>
apfel        == <<"a","p","f","e","l">>
apfelSpace   == <<"a","p","f","e","l"," ">>
Ab           == <<"a","b">>
schule       == <<"s","c","h","u","l","e">>
Wissenschaft == <<"w","i","s","s","e","n","s","c","h","a","f","t">>
Obst         == <<"O","b","s","t">>
Otto         == <<"O","t","t","o">>

\* a hint: its text and the number the text embeds (0 when it embeds none)
CustomHint      == [text |-> "custom", n |-> 0]
DefaultHint(w)  == [text |-> "A German word with n letters", n |-> Len(w)]
HintOrDefault(hint, w) == IF hint.text = "" THEN DefaultHint(w) ELSE hint

\* RandomWordsAPI.estimateDifficulty
estimateDifficulty(word) ==
    IF Len(word) <= 5 THEN "easy"
    ELSE IF Len(word) <= 9 THEN "medium"
    ELSE "hard"

\* estimateWordDifficulty with medium from 6 to 11 characters
estimateWordDifficultyUpTo11(word) ==
    LET length == Len(ToLowerCase(word))
    IN  IF length <= 5 THEN "easy"
        ELSE IF length <= 11 THEN "medium"
        ELSE "hard"

\* OpenThesaurusAPI.estimateWordDifficulty
estimateWordDifficulty(word) ==
    LET length == Len(ToLowerCase(word))
    IN  IF length <= 5 THEN "easy"
        ELSE IF length <= 9 THEN "medium"
        ELSE "hard"

\* [...enrichedWords.easy, ...enrichedWords.medium, ...enrichedWords.hard]
AllWords(pool) == pool["easy"] \o pool["medium"] \o pool["hard"]

\* allWords.some(w => w.word === lowered): the stored word compared as it is written
WordExistsAsWritten(pool, lowered) ==
    \E i \in 1..Len(AllWords(pool)) : AllWords(pool)[i].word = lowered

\* allWords.some(w => w.word.toLowerCase() === lowered)
WordExists(pool, lowered) ==
    \E i \in 1..Len(AllWords(pool)) : ToLowerCase(AllWords(pool)[i].word) = lowered

\* the keys of a hash in the order hGetAll lists them (an order the store fixes)
RECURSIVE KeysInOrder(_)
KeysInOrder(ks) == IF ks = {} THEN <<>>
                   ELSE LET k == CHOOSE x \in ks : TRUE
                        IN  <<k>> \o KeysInOrder(ks \ {k})

\* WordEnricherRedis.getWordsFromRedis: [] when the read throws or the hash is empty
getWordsFromRedis(hash, readOk) ==
    IF ~readOk \/ DOMAIN hash = {} THEN <<>>
    ELSE LET ks == KeysInOrder(DOMAIN hash)
         IN  [i \in 1..Len(ks) |-> [word |-> ks[i], hint |-> HintOrDefault(hash[ks[i]], ks[i])]]

\* WordEnricherRedis.initialize: the pool after the call (readOk: tier -> the read succeeded)
initialize(readOk) ==
    IF isInitialized THEN enrichedWords
    ELSE [t \in Tiers |-> getWordsFromRedis(redisWords[t], readOk[t])]

\* WordEnricherRedis.saveToRedis: the store after the call (saveOk: hSet did not throw)
saveToRedis(store, difficulty, words, saveOk) ==
    IF words = <<>> \/ ~saveOk THEN store
    ELSE LET new == {words[i].word : i \in 1..Len(words)}
             hintOf(w) == LET j == CHOOSE j \in 1..Len(words) :
                                     /\ words[j].word = w
                                     /\ \A k \in (j+1)..Len(words) : words[k].word # w
                          IN  HintOrDefault(words[j].hint, w)
             old == store[difficulty]
         IN  [store EXCEPT ![difficulty] =
                 [w \in DOMAIN old \cup new |-> IF w \in new THEN hintOf(w) ELSE old[w]]]

\* the three saves that end an enrichment, in the order easy, medium, hard
RECURSIVE persistByDifficulty(_, _, _, _)
persistByDifficulty(store, byDifficulty, saveOk, i) ==
    IF i > Len(TierOrder) THEN store
    ELSE LET diff == TierOrder[i]
         IN  persistByDifficulty(
                 IF Len(byDifficulty[diff]) > 0
                 THEN saveToRedis(store, diff, byDifficulty[diff], saveOk[diff])
                 ELSE store,
                 byDifficulty, saveOk, i + 1)

EmptyPool == [t \in Tiers |-> <<>>]

\* addWord looking for the word in the tier it appends to only
addWordPoolOwnTier(pool, word, hint, difficulty) ==
    LET normalizedWord   == Trim(ToLowerCase(word))
        actualDifficulty == IF difficulty = NoTier
                            THEN estimateDifficulty(normalizedWord)
                            ELSE difficulty
        newWord          == [word |-> normalizedWord, hint |-> hint]
    IN  IF \E i \in 1..Len(pool[actualDifficulty]) :
               ToLowerCase(pool[actualDifficulty][i].word) = normalizedWord
        THEN pool
        ELSE [pool EXCEPT ![actualDifficulty] = Append(@, newWord)]

\* WordEnricherRedis.addWord, lines 176-200: the pool after the call
addWordPool(pool, word, hint, difficulty) ==
    LET normalizedWord   == Trim(ToLowerCase(word))
        actualDifficulty == IF difficulty = NoTier
                            THEN estimateDifficulty(normalizedWord)
                            ELSE difficulty
        newWord          == [word |-> normalizedWord, hint |-> hint]
    IN  IF WordExists(pool, normalizedWord) THEN pool
        ELSE [pool EXCEPT ![actualDifficulty] = Append(@, newWord)]

\* WordEnricherRedis.addWord: what it returns
addWordReturns(pool, word) == ~WordExists(pool, Trim(ToLowerCase(word)))

\* WordEnricherRedis.addWord
AddWord(word, hint, difficulty, readOk, saveOk) ==
    \E pool \in {initialize(readOk)} :
    \E added \in {addWordReturns(pool, word)} :
    LET normalizedWord   == Trim(ToLowerCase(word))
        actualDifficulty == IF difficulty = NoTier
                            THEN estimateDifficulty(normalizedWord)
                            ELSE difficulty
        newWord          == [word |-> normalizedWord, hint |-> hint]
    IN  /\ isInitialized' = TRUE
        /\ enrichedWords' = addWordPool(pool, word, hint, difficulty)
        /\ redisWords' = IF added
                         THEN saveToRedis(redisWords, actualDifficulty, <<newWord>>, saveOk)
                         ELSE redisWords
        /\ last' = [op |-> "addWord", word |-> word, hint |-> hint,
                    difficulty |-> difficulty, readOk |-> readOk, ret |-> added]
        /\ UNCHANGED <<gameVars, callVars, hangmanVars, puzzleVars, streakVars>>

-----------------------------------------------------------------------------
(* Enrichment from the random-words provider *)

\* what the provider's HTTP answer can be
FailureKinds == {"networkError", "httpError", "invalidJson"}   \* fetch or json() throws
WordKinds    == {"words"}                  \* a payload fetchWords normalizes to a string[]

\* fetchWords reading the payload whatever the status
fetchWordsAnyStatus(resp) == resp.words

\* RandomWordsAPI.fetchWords: the payload normalized to string[], [] on any error
fetchWords(resp) == IF resp.kind \in WordKinds THEN resp.words ELSE <<>>

\* the words parameter without its lower limit of 3
wordsParamNoFloor(desiredCount) == Min(desiredCount, 12)

\* RandomWordsAPI.fetchRandomGermanWords: the words parameter of the request
wordsParam(desiredCount) == Max(3, Min(desiredCount, 12))

\* RandomWordsAPI.buildHint with a category and a length given
buildHint(category, length) == [text |-> category, n |-> length]

\* RandomWordsAPI.fetchRandomGermanWords, lines 124-127
fetchRandomGermanWords(resp, category, length) ==
    LET unique  == Dedup(fetchWords(resp))
        lowered == [i \in 1..Len(unique) |-> Trim(ToLowerCase(unique[i]))]
        kept    == SelectSeqLen3(lowered)
    IN  [i \in 1..Len(kept) |-> [word |-> kept[i], hint |-> buildHint(category, length)]]

NoneByDifficulty == [t \in Tiers |-> <<>>]

\* the loop looking for each word in the pool as it was when the loop started
RECURSIVE enrichRandomLoopStalePool(_, _, _)
enrichRandomLoopStalePool(fetched, i, acc) ==
    IF i > Len(fetched) THEN acc
    ELSE LET word   == fetched[i].word
             before == [t \in Tiers |->
                          SubSeq(acc.pool[t], 1, Len(acc.pool[t]) - Len(acc.byDifficulty[t]))]
             exists == WordExists(before, ToLowerCase(word))
             diff   == estimateDifficulty(word)
             entry  == [word |-> word, hint |-> fetched[i].hint]
         IN  enrichRandomLoopStalePool(fetched, i + 1,
                 IF exists THEN acc
                 ELSE [pool         |-> [acc.pool EXCEPT ![diff] = Append(@, entry)],
                       byDifficulty |-> [acc.byDifficulty EXCEPT ![diff] = Append(@, entry)],
                       added        |-> acc.added + 1])

\* WordEnricherRedis.enrichWithRandomGermanWords, lines 228-242: the loop from entry i on
RECURSIVE enrichRandomLoop(_, _, _)
enrichRandomLoop(fetched, i, acc) ==
    IF i > Len(fetched) THEN acc
    ELSE LET word   == fetched[i].word
             exists == WordExists(acc.pool, ToLowerCase(word))
             diff   == estimateDifficulty(word)
             entry  == [word |-> word, hint |-> fetched[i].hint]
         IN  enrichRandomLoop(fetched, i + 1,
                 IF exists THEN acc
                 ELSE [pool         |-> [acc.pool EXCEPT ![diff] = Append(@, entry)],
                       byDifficulty |-> [acc.byDifficulty EXCEPT ![diff] = Append(@, entry)],
                       added        |-> acc.added + 1])

\* WordEnricherRedis.enrichWithRandomGermanWords
EnrichWithRandomGermanWords(count, resp, category, length, readOk, saveOk) ==
    \E pool \in {initialize(readOk)} :
    \E fetched \in {fetchRandomGermanWords(resp, category, length)} :
    \E done \in {enrichRandomLoop(fetched, 1,
                     [pool |-> pool, byDifficulty |-> NoneByDifficulty, added |-> 0])} :
        /\ isInitialized' = TRUE
        /\ enrichedWords' = done.pool
        /\ redisWords' = persistByDifficulty(redisWords, done.byDifficulty, saveOk, 1)
        /\ last' = [op |-> "enrichWithRandomGermanWords", count |-> count,
                    requested |-> wordsParam(count), kind |-> resp.kind,
                    received |-> Len(fetchWords(resp)), kept |-> Len(fetched),
                    readOk |-> readOk,
                    ret |-> done.added]
        /\ UNCHANGED <<gameVars, callVars, hangmanVars, puzzleVars, streakVars>>

-----------------------------------------------------------------------------
(* Enrichment from OpenThesaurus *)

\* OpenThesaurusAPI.generateHint: synonyms is what getSynonyms(word) answered
generateHint(word, synonyms) ==
    IF Len(synonyms) > 0 THEN [text |-> "Similar to", n |-> 0] ELSE DefaultHint(word)

\* the arrays slice(0, count) can give after sort(() => 0.5 - Math.random()):
\* count elements of s (all of them when it has fewer) in any order
Selections(s, count) ==
    LET k == Min(count, Len(s))
    IN  { [i \in 1..k |-> s[f[i]]] :
            f \in { g \in [1..k -> 1..Len(s)] : \A a, b \in 1..k : a # b => g[a] # g[b] } }

\* OpenThesaurusAPI.fetchRandomWords, lines 199-207: the pool the words are drawn from
fetchRandomWordsPool(seedWord, count, startsWith, substring) ==
    SelectSeqLen3(IF Len(startsWith) < count * 2 /\ Len(seedWord) >= 3
                  THEN Dedup(startsWith \o substring)
                  ELSE startsWith)

\* WordEnricherRedis.searchAndAddWords, lines 336-358: the pool the words are drawn from
searchWordPool(searchTerm, count, startsWith, substring, synonyms) ==
    LET p1 == startsWith
        p2 == IF Len(p1) < count * 2 THEN Dedup(p1 \o substring) ELSE p1
        p3 == IF Len(p2) < count /\ Len(searchTerm) >= 3 THEN Dedup(p2 \o synonyms) ELSE p2
    IN  SelectSeqLen3(p3)

\* the loops of enrichWithSeedWord (lines 284-306) and searchAndAddWords (lines 375-400),
\* run without another request in between: the words in order, hintOf their hints
RECURSIVE enrichThesaurusLoop(_, _, _, _)
enrichThesaurusLoop(selected, hintOf, i, acc) ==
    IF i > Len(selected) THEN acc
    ELSE LET word       == selected[i]
             exists     == WordExists(acc.pool, ToLowerCase(word))
             difficulty == estimateWordDifficulty(word)
             entry      == [word |-> word, hint |-> hintOf[word]]
         IN  enrichThesaurusLoop(selected, hintOf, i + 1,
                 IF exists THEN acc
                 ELSE [pool         |-> [acc.pool EXCEPT ![difficulty] = Append(@, entry)],
                       byDifficulty |-> [acc.byDifficulty EXCEPT ![difficulty] = Append(@, entry)],
                       added        |-> acc.added + 1])

\* WordEnricherRedis.enrichWithSeedWord
EnrichWithSeedWord(seedWord, count, startsWith, substring, hintSynonyms, readOk, saveOk) ==
  \E selected \in Selections(fetchRandomWordsPool(seedWord, count, startsWith, substring), count) :
  \E pool \in {initialize(readOk)} :
  \E hintOf \in {[w \in Range(selected) |-> generateHint(w, hintSynonyms)]} :
  \E done \in {enrichThesaurusLoop(selected, hintOf, 1,
                   [pool |-> pool, byDifficulty |-> NoneByDifficulty, added |-> 0])} :
        /\ isInitialized' = TRUE
        /\ enrichedWords' = done.pool
        /\ redisWords' = persistByDifficulty(redisWords, done.byDifficulty, saveOk, 1)
        /\ last' = [op |-> "enrichWithSeedWord", count |-> count, readOk |-> readOk,
                    ret |-> done.added]
        /\ UNCHANGED <<gameVars, callVars, hangmanVars, puzzleVars, streakVars>>

\* WordEnricherRedis.searchAndAddWords
SearchAndAddWords(searchTerm, count, startsWith, substring, synonyms, hintSynonyms, readOk, saveOk) ==
  \E selected \in Selections(searchWordPool(searchTerm, count, startsWith, substring, synonyms), count) :
  \E pool \in {initialize(readOk)} :
  \E hintOf \in {[w \in Range(selected) |-> generateHint(w, hintSynonyms)]} :
  \E done \in {enrichThesaurusLoop(selected, hintOf, 1,
                   [pool |-> pool, byDifficulty |-> NoneByDifficulty, added |-> 0])} :
        /\ isInitialized' = TRUE
        /\ enrichedWords' = done.pool
        /\ redisWords' = persistByDifficulty(redisWords, done.byDifficulty, saveOk, 1)
        /\ last' = [op |-> "searchAndAddWords", count |-> count, readOk |-> readOk,
                    ret |-> done.added]
        /\ UNCHANGED <<gameVars, callVars, hangmanVars, puzzleVars, streakVars>>

-----------------------------------------------------------------------------
(* The word pool's specification: one request at a time *)

MaxProviderWords == 2      \* the longest word list the random-words provider answers

AllOk == [t \in Tiers |-> TRUE]

\* the outcomes of the three hGetAll of initialize(), issued together: the store answers
\* them or it does not; they are not read once initialized
ReadOutcomes == IF isInitialized THEN {AllOk} ELSE {[t \in Tiers |-> b] : b \in BOOLEAN}

\* what german_words:* can hold when the process starts: nothing, or words that
\* earlier processes saved
InitialStores ==
    { [t \in Tiers |-> <<>>],
      [easy |-> (apfel :> CustomHint), medium |-> <<>>, hard |-> <<>>] }

\* the store answers every hSet of one call, or none of them
SaveOutcomes == {[t \in Tiers |-> b] : b \in BOOLEAN}

AddWordWords       == {Apfel, apfelSpace}
AddWordTiers       == {NoTier, "hard"}
RandomVocabulary   == {apfel, Apfel, schule}
RandomCounts       == {1, 6, 13}
\* the (term, count) arguments of enrichWithSeedWord and searchAndAddWords
ThesaurusCalls     == {<<Ab, 1>>, <<Apfel, 2>>}
\* what OpenThesaurus answers to the startswith, substring and synonym searches of one
\* call and to the synonym searches of generateHint (each is [] when the search fails)
ThesaurusReplies   ==
    { [startsWith |-> <<>>, substring |-> <<>>, synonyms |-> <<>>, hintSynonyms |-> <<>>],
      [startsWith |-> <<apfel, Apfel>>, substring |-> <<Ab, Wissenschaft>>,
       synonyms |-> <<>>, hintSynonyms |-> <<Obst>>],
      [startsWith |-> <<Apfel, Apfel>>, substring |-> <<>>,
       synonyms |-> <<Wissenschaft, Ab>>, hintSynonyms |-> <<>>] }

BoundedSeq(S, n) == UNION {[1..k -> S] : k \in 0..n}

\* a failed request has no payload, or (a non-2xx answer) a payload that lists words
ProviderResponses ==
    {[kind |-> k, words |-> <<>>] : k \in FailureKinds}
    \cup {[kind |-> "httpError", words |-> <<schule>>]}
    \cup {[kind |-> k, words |-> ws] : k \in WordKinds,
                                       ws \in BoundedSeq(RandomVocabulary, MaxProviderWords)}

PoolInit ==
    /\ isInitialized = FALSE
    /\ enrichedWords = EmptyPool
    /\ redisWords \in InitialStores

PoolNext ==
    \/ \E word \in AddWordWords, difficulty \in AddWordTiers,
          readOk \in ReadOutcomes, saveOk \in BOOLEAN :
            AddWord(word, CustomHint, difficulty, readOk, saveOk)
    \/ \E count \in RandomCounts, resp \in ProviderResponses,
          readOk \in ReadOutcomes, saveOk \in SaveOutcomes :
            EnrichWithRandomGermanWords(count, resp, "wordle", 4, readOk, saveOk)
    \/ \E call \in ThesaurusCalls, reply \in ThesaurusReplies,
          readOk \in ReadOutcomes, saveOk \in SaveOutcomes :
            EnrichWithSeedWord(call[1], call[2], reply.startsWith, reply.substring,
                               reply.hintSynonyms, readOk, saveOk)
    \/ \E call \in ThesaurusCalls, reply \in ThesaurusReplies,
          readOk \in ReadOutcomes, saveOk \in SaveOutcomes :
            SearchAndAddWords(call[1], call[2], reply.startsWith, reply.substring,
                              reply.synonyms, reply.hintSynonyms, readOk, saveOk)


-----------------------------------------------------------------------------
(* The word pool with calls that overlap: each step runs from one await to the next *)

Calls == {"c1", "c2"}

IdleCall ==
    [pc |-> "idle", op |-> "", words |-> <<>>, i |-> 0, loaded |-> EmptyPool,
     byDifficulty |-> NoneByDifficulty, added |-> 0]

\* where a call goes on once `await this.initialize()` is over
AfterInitialize(op) ==
    CASE op = "addWord" -> "addWord"
      [] op = "searchAndAddWords" -> "search"
      [] op = "enrichWithRandomGermanWords" -> "fetch"

\* a call starts and runs up to its first await: initialize() returns at once when
\* isInitialized, else it issues the three hGetAll. words is the word of addWord, the
\* words searchAndAddWords will select, or the words the provider will answer
StartCall(r, op, words) ==
    /\ calls[r].pc = "idle"
    /\ calls' = [calls EXCEPT ![r] =
           [IdleCall EXCEPT !.op = op, !.words = words,
                            !.pc = IF isInitialized THEN AfterInitialize(op) ELSE "hGetAll"]]
    /\ UNCHANGED <<poolVars, last, hangmanVars, puzzleVars, streakVars, gameVars>>

\* the store answers the three hGetAll of initialize(), lines 46-50
LoadAnswered(r, readOk) ==
    /\ calls[r].pc = "hGetAll"
    /\ calls' = [calls EXCEPT ![r].pc = "assign",
                              ![r].loaded = [t \in Tiers |->
                                  getWordsFromRedis(redisWords[t], readOk[t])]]
    /\ UNCHANGED <<poolVars, last, hangmanVars, puzzleVars, streakVars, gameVars>>

\* initialize() after its await, lines 52-69: the pool is replaced by what was loaded
InitializeAssigns(r) ==
    /\ calls[r].pc = "assign"
    /\ enrichedWords' = calls[r].loaded
    /\ isInitialized' = TRUE
    /\ calls' = [calls EXCEPT ![r].pc = AfterInitialize(calls[r].op)]
    /\ UNCHANGED <<redisWords, last, hangmanVars, puzzleVars, streakVars, gameVars>>

\* addWord from line 176 to `await this.saveToRedis`, or to `return false`
AddWordAppends(r) ==
    /\ calls[r].pc = "addWord"
    /\ \E word \in {calls[r].words[1]} :
       \E added \in {addWordReturns(enrichedWords, word)} :
           /\ enrichedWords' = addWordPool(enrichedWords, word, CustomHint, NoTier)
           /\ calls' = [calls EXCEPT
                  ![r].pc = IF added THEN "hSet" ELSE "return",
                  ![r].added = IF added THEN 1 ELSE 0,
                  ![r].byDifficulty =
                      IF added
                      THEN [NoneByDifficulty EXCEPT
                               ![estimateDifficulty(Trim(ToLowerCase(word)))] =
                                   <<[word |-> Trim(ToLowerCase(word)), hint |-> CustomHint]>>]
                      ELSE NoneByDifficulty]
    /\ UNCHANGED <<isInitialized, redisWords, last, hangmanVars, puzzleVars, streakVars, gameVars>>

\* searchAndAddWords, lines 375-387: the index of the first word from i on that the pool
\* does not hold (the loop stops at it, awaiting generateHint), or Len(words) + 1
RECURSIVE nextMissing(_, _, _)
nextMissing(pool, words, i) ==
    IF i > Len(words) THEN i
    ELSE IF WordExists(pool, ToLowerCase(words[i])) THEN nextMissing(pool, words, i + 1)
    ELSE i

\* where searchAndAddWords awaits next
SearchPc(words, i, added) ==
    IF i <= Len(words) THEN "generateHint" ELSE IF added > 0 THEN "hSet" ELSE "return"

\* OpenThesaurus has answered the searches of searchAndAddWords: the loop starts
SearchAnswered(r) ==
    /\ calls[r].pc = "search"
    /\ \E i \in {nextMissing(enrichedWords, calls[r].words, 1)} :
           calls' = [calls EXCEPT ![r].i = i, ![r].pc = SearchPc(calls[r].words, i, 0)]
    /\ UNCHANGED <<poolVars, last, hangmanVars, puzzleVars, streakVars, gameVars>>

\* generateHint has answered, lines 389-399: the word is appended without another look
\* at the pool, and the loop goes on to its next await
HintAnswered(r) ==
    /\ calls[r].pc = "generateHint"
    /\ \E word \in {calls[r].words[calls[r].i]} :
       \E entry \in {[word |-> word, hint |-> generateHint(word, <<>>)]} :
       \E pool \in {[enrichedWords EXCEPT ![estimateWordDifficulty(word)] = Append(@, entry)]} :
       \E i \in {nextMissing(pool, calls[r].words, calls[r].i + 1)} :
           /\ enrichedWords' = pool
           /\ calls' = [calls EXCEPT
                  ![r].i = i,
                  ![r].added = @ + 1,
                  ![r].byDifficulty[estimateWordDifficulty(word)] = Append(@, entry),
                  ![r].pc = SearchPc(calls[r].words, i, calls[r].added + 1)]
    /\ UNCHANGED <<isInitialized, redisWords, last, hangmanVars, puzzleVars, streakVars, gameVars>>

\* the provider has answered enrichWithRandomGermanWords: the loop of lines 228-242 runs
\* without an await
FetchAnswered(r) ==
    /\ calls[r].pc = "fetch"
    /\ \E fetched \in {[i \in 1..Len(calls[r].words) |->
                            [word |-> calls[r].words[i], hint |-> buildHint("wordle", 4)]]} :
       \E done \in {enrichRandomLoop(fetched, 1,
                        [pool |-> enrichedWords, byDifficulty |-> NoneByDifficulty,
                         added |-> 0])} :
           /\ enrichedWords' = done.pool
           /\ calls' = [calls EXCEPT ![r].added = done.added,
                                     ![r].byDifficulty = done.byDifficulty,
                                     ![r].pc = IF done.added > 0 THEN "hSet" ELSE "return"]
    /\ UNCHANGED <<isInitialized, redisWords, last, hangmanVars, puzzleVars, streakVars, gameVars>>

\* the store answers the hSet of the call's saveToRedis
SaveAnswered(r, saveOk) ==
    /\ calls[r].pc = "hSet"
    /\ redisWords' = persistByDifficulty(redisWords, calls[r].byDifficulty, saveOk, 1)
    /\ calls' = [calls EXCEPT ![r].pc = "return"]
    /\ UNCHANGED <<isInitialized, enrichedWords, last, hangmanVars, puzzleVars, streakVars, gameVars>>

\* the call returns: true or false for addWord, the number of words added for the others
Return(r) ==
    /\ calls[r].pc = "return"
    /\ last' = [op |-> calls[r].op, words |-> calls[r].words, call |-> r,
                ret |-> calls[r].added]
    /\ calls' = [calls EXCEPT ![r] = IdleCall]
    /\ UNCHANGED <<poolVars, hangmanVars, puzzleVars, streakVars, gameVars>>

\* the calls: addWord("Apfel"), searchAndAddWords selecting "apfel" or "Apfel" and
\* "schule", enrichWithRandomGermanWords answered with "apfel" and "schule"
OverlapCalls ==
    { <<"addWord", <<Apfel>>>>,
      <<"searchAndAddWords", <<apfel>>>>,
      <<"searchAndAddWords", <<Apfel, schule>>>>,
      <<"enrichWithRandomGermanWords", <<apfel, schule>>>> }

OverlapNext ==
    \/ \E r \in Calls, c \in OverlapCalls : StartCall(r, c[1], c[2])
    \/ \E r \in Calls, readOk \in {[t \in Tiers |-> b] : b \in BOOLEAN} : LoadAnswered(r, readOk)
    \/ \E r \in Calls : InitializeAssigns(r)
    \/ \E r \in Calls : AddWordAppends(r)
    \/ \E r \in Calls : SearchAnswered(r)
    \/ \E r \in Calls : HintAnswered(r)
    \/ \E r \in Calls : FetchAnswered(r)
    \/ \E r \in Calls, saveOk \in SaveOutcomes : SaveAnswered(r, saveOk)
    \/ \E r \in Calls : Return(r)

-----------------------------------------------------------------------------
(* The daily puzzle: seed.ts, ContentManager, RedditContentManager, GameStorage *)

\* an item of the word bank: where it comes from (the default bank "w" or "reddit"), the
\* number in its id (w1..w12, reddit-0..reddit-7) and which fetch wrote its content (0 for
\* the default bank); an array element that is undefined or null has the same shape
Item(src, n, ver) == [src |-> src, n |-> n, ver |-> ver]
Undefined == Item("undefined", 0, 0)
Null      == Item("null", 0, 0)

\* content.ts: the default bank, w1..w12
GERMAN_WORD_BANK == [i \in 1..12 |-> Item("w", i, 0)]

\* String.prototype.split(sep), sep one character: the parts from the part cur on
RECURSIVE SplitFrom(_, _, _)
SplitFrom(s, sep, cur) ==
    IF s = <<>> THEN <<cur>>
    ELSE IF Head(s) = sep THEN <<cur>> \o SplitFrom(Tail(s), sep, <<>>)
    ELSE SplitFrom(Tail(s), sep, Append(cur, Head(s)))
Split(s, sep) == SplitFrom(s, sep, <<>>)

\* JSON.parse(JSON.stringify(items)): an undefined array element is written as null
JsonItems(items) == [i \in 1..Len(items) |-> IF items[i] = Undefined THEN Null ELSE items[i]]
\* JSON.parse(JSON.stringify(puzzle))
JsonPuzzle(puzzle) == [puzzle EXCEPT !.items = JsonItems(@)]

\* seededShuffle, lines 231-235: the 32-bit hash as its two 16-bit halves, after the
\* characters from i on
RECURSIVE hashSeed(_, _, _)
hashSeed(seed, i, h) ==
    IF i > Len(seed) THEN h
    ELSE LET low == 31 * h.lo + CharCode(seed[i])
         IN  hashSeed(seed, i + 1, [hi |-> (31 * h.hi + (low \div 65536)) % 65536,
                                    lo |-> low % 65536])

Modulus == 233280
\* (a * 9301) % 233280 for 0 <= a < 233280, in steps that stay below 2^31
MulMod9301(a) == (((a * 93) % Modulus) * 100 + a) % Modulus

\* hash = (hash * 9301 + 49297) % 233280 with the sign of the dividend, for a hash of
\* sign neg whose magnitude is amod modulo 233280; tiny: the magnitude is at most 5
lcg(neg, amod, tiny) ==
    IF ~neg THEN (MulMod9301(amod) + 49297) % Modulus
    ELSE IF tiny THEN 49297 - 9301 * amod
    ELSE 0 - ((MulMod9301(amod) + Modulus - 49297) % Modulus)

\* the first step of the generator, on the 32-bit hash
lcgFirst(h) ==
    IF h.hi < 32768
    THEN lcg(FALSE, (h.hi * 65536 + h.lo) % Modulus, FALSE)
    ELSE lcg(TRUE, ((((65535 - h.hi) * 65536) % Modulus) + (65536 - h.lo)) % Modulus,
             h.hi = 65535 /\ h.lo >= 65531)

\* the later steps, on a hash between -233280 and 233280
lcgNext(hash) ==
    IF hash >= 0 THEN lcg(FALSE, hash, FALSE) ELSE lcg(TRUE, 0 - hash, 0 - hash <= 5)

\* Math.floor((hash / 233280) * currentIndex)
randomIndexOf(hash, currentIndex) == (hash * currentIndex) \div Modulus

\* seededShuffle, lines 241-248: shuffled is the array and the properties that writes at
\* negative indices give it; hash is the value line 243 computed for this iteration
RECURSIVE shuffleLoop(_, _, _)
shuffleLoop(shuffled, hash, currentIndex) ==
    IF currentIndex = 0 THEN shuffled
    ELSE LET randomIndex == randomIndexOf(hash, currentIndex)
             ci          == currentIndex - 1
         IN  shuffleLoop([shuffled EXCEPT ![ci] = shuffled[randomIndex],
                                          ![randomIndex] = shuffled[ci]],
                         lcgNext(hash), ci)

\* seededShuffle: the array's elements 0..length-1 after the loop
seededShuffle(array, seed) ==
    LET n     == Len(array)
        start == [k \in (0 - n)..(n - 1) |-> IF k >= 0 THEN array[k + 1] ELSE Undefined]
        done  == IF n = 0 THEN start
                 ELSE shuffleLoop(start, lcgFirst(hashSeed(seed, 1, [hi |-> 0, lo |-> 0])), n)
    IN  [i \in 1..n |-> done[i - 1]]

\* selectRandomItems
selectRandomItems(items, count, seed) == Slice(seededShuffle(items, seed), count)

\* getTodaySeed: date is toISOString().slice(0, 10)
getTodaySeed(date, lang) == date \o <<":">> \o lang

\* createRedditPuzzle, line 214: `${date}:${lang}:reddit`
redditSeed(date, lang) == date \o <<":">> \o lang \o <<":","r","e","d","d","i","t">>

De == <<"d","e">>

\* RedditContentManager.fetchRedditContent: [] when Reddit fails, else an item for each
\* of the first 8 unique pairs, with the ids reddit-0, reddit-1, ...
fetchRedditContent(reply) ==
    IF ~reply.ok THEN <<>>
    ELSE [i \in 1..Min(reply.pairs, 8) |-> Item("reddit", i - 1, reply.ver)]

\* GameStorage.getWordBank after `if (!wordBank)`: the stored bank, or orElse
bankOr(orElse) == IF wordBank = <<>> THEN orElse ELSE wordBank[1]

\* ContentManager.generatePuzzleFromBank: the bank it leaves stored, whether it throws,
\* and the puzzle it returns when it does not
generatePuzzleFromBank(seed) ==
    LET bank          == bankOr(GERMAN_WORD_BANK)
        selectedItems == selectRandomItems(bank, 8, seed)
        parts         == Split(seed, ":")
        dateStr       == parts[1]
        lang          == IF Len(parts) >= 2 /\ parts[2] # <<>> THEN parts[2] ELSE De
    IN  [bank   |-> <<JsonItems(bank)>>,
         threw  |-> dateStr = <<>>,
         puzzle |-> [id |-> seed, lang |-> lang, date |-> dateStr,
                     items |-> selectedItems, author |-> "system"]]

\* ContentManager.getDailyPuzzle
GetDailyPuzzle(seed) ==
    IF puzzles[seed] # <<>>
    THEN /\ last' = [op |-> "getDailyPuzzle", seed |-> seed, threw |-> FALSE,
                     ret |-> puzzles[seed][1]]
         /\ firstReturned' = IF firstReturned[seed] = <<>>
                             THEN [firstReturned EXCEPT ![seed] = <<puzzles[seed][1].items>>]
                             ELSE firstReturned
         /\ UNCHANGED <<gameVars, callVars, hangmanVars, wordBank, puzzles, poolVars, streakVars>>
    ELSE \E gen \in {generatePuzzleFromBank(seed)} :
         /\ wordBank' = gen.bank
         /\ puzzles' = IF gen.threw THEN puzzles
                       ELSE [puzzles EXCEPT ![seed] = <<JsonPuzzle(gen.puzzle)>>]
         /\ firstReturned' = IF gen.threw \/ firstReturned[seed] # <<>> THEN firstReturned
                             ELSE [firstReturned EXCEPT ![seed] = <<gen.puzzle.items>>]
         /\ last' = [op |-> "getDailyPuzzle", seed |-> seed, threw |-> gen.threw,
                     ret |-> IF gen.threw THEN [items |-> <<>>] ELSE gen.puzzle]
         /\ UNCHANGED <<gameVars, callVars, hangmanVars, poolVars, streakVars>>

\* ContentManager.initializeContent
InitializeContent ==
    /\ wordBank' = <<JsonItems(bankOr(GERMAN_WORD_BANK))>>
    /\ last' = [op |-> "initializeContent"]
    /\ UNCHANGED <<gameVars, callVars, hangmanVars, puzzles, firstReturned, poolVars, streakVars>>

\* RedditContentManager.refreshWordBank
RefreshWordBank(reply) ==
    LET bank        == bankOr(<<>>)
        redditItems == fetchRedditContent(reply)
        existingIds == {<<bank[i].src, bank[i].n>> : i \in 1..Len(bank)}
        newItems    == SelectSeq(redditItems, LAMBDA item : <<item.src, item.n>> \notin existingIds)
    IN  /\ wordBank' = IF Len(redditItems) = 0 THEN wordBank
                       ELSE <<JsonItems(bank \o newItems)>>
        /\ last' = [op |-> "refreshWordBank", ret |-> Len(redditItems) # 0]
        /\ UNCHANGED <<gameVars, callVars, hangmanVars, puzzles, firstReturned, poolVars, streakVars>>

\* RedditContentManager.createRedditPuzzle
CreateRedditPuzzle(date, lang, reply) ==
    LET seed        == redditSeed(date, lang)
        redditItems == fetchRedditContent(reply)
        puzzle      == [id |-> seed, lang |-> lang, date |-> date,
                        items |-> Slice(redditItems, 8), author |-> "reddit"]
    IN  /\ puzzles' = IF Len(redditItems) < 8 THEN puzzles
                      ELSE [puzzles EXCEPT ![seed] = <<JsonPuzzle(puzzle)>>]
        /\ last' = [op |-> "createRedditPuzzle", ret |-> Len(redditItems) >= 8]
        /\ UNCHANGED <<gameVars, callVars, hangmanVars, wordBank, firstReturned, poolVars, streakVars>>

-----------------------------------------------------------------------------
(* The puzzle's specification: one request at a time *)

MaxFetch == 2      \* the fetches of Reddit content whose answers differ from each other

Today == <<"2","0","2","6","-","1","1","-","0","2">>

\* the seeds the routes pass to getDailyPuzzle: today's (GET /api/puzzle/today), and what
\* GET /api/puzzle/:seed is asked for: today's Reddit seed, a seed without a date
PuzzleSeeds == {getTodaySeed(Today, De), redditSeed(Today, De), <<":","d","e">>}

\* what Reddit answers: a failure, or a number of unique word pairs
RedditPairCounts == {0, 3, 9}
RedditReplies ==
    {[ok |-> FALSE, pairs |-> 0, ver |-> 0]}
    \cup {[ok |-> TRUE, pairs |-> n, ver |-> v] : n \in RedditPairCounts, v \in 1..MaxFetch}

PuzzleNext ==
    \/ \E seed \in PuzzleSeeds : GetDailyPuzzle(seed)
    \/ InitializeContent
    \/ \E reply \in RedditReplies : RefreshWordBank(reply)
    \/ \E reply \in RedditReplies : CreateRedditPuzzle(Today, De, reply)

-----------------------------------------------------------------------------
(* The streak: router.post('/api/submit-result'), scoring.ts, GameStorage *)

\* Number.prototype.toString for a natural number
RECURSIVE NatToString(_)
NatToString(n) == IF n < 10 THEN <<Digits[n + 1]>>
                  ELSE NatToString(n \div 10) \o <<Digits[(n % 10) + 1]>>

\* parseInt of a string of digits, after the digits that gave acc
RECURSIVE parseIntFrom(_, _)
parseIntFrom(str, acc) ==
    IF str = <<>> THEN acc
    ELSE parseIntFrom(Tail(str), 10 * acc + (IndexIn(Head(str), Digits) - 1))

\* getUserState, lines 15-16: `value ? parseInt(value) : 0`; a value is <<>> when the key
\* is absent (redis.get answers null) and <<string>> otherwise
parseStored(value) == IF value = <<>> \/ value[1] = <<>> THEN 0 ELSE parseIntFrom(value[1], 0)

\* computeScore: answers is the array of the answers' `correct`
computeScore(answers) == Cardinality({i \in 1..Len(answers) : answers[i]})

\* computeScore: perfect, `score === answers.length`
perfect(answers) == computeScore(answers) = Len(answers)

\* updateStreak's passed with a threshold of half of the items
passedHalf(score, totalItems) == score >= (totalItems + 1) \div 2

\* updateStreak: passed; Math.ceil(totalItems * 0.625) is ceil(5 * totalItems / 8), and
\* 0.625 is a binary fraction, so the product is exact
passed(score, totalItems) == score >= (5 * totalItems + 7) \div 8

\* updateStreak with a streak that a failed game leaves as it is
updateStreakNoReset(currentStreak, score, totalItems) ==
    IF passed(score, totalItems) THEN currentStreak + 1 ELSE currentStreak

\* updateStreak: newStreak
updateStreak(currentStreak, score, totalItems) ==
    IF passed(score, totalItems) THEN currentStreak + 1 ELSE 0

\* calculateTotalTime: answers.reduce((total, answer) => total + answer.ms, 0), from the
\* answer at index i on, with the total so far
RECURSIVE reduceMs(_, _, _)
reduceMs(ms, i, total) ==
    IF i > Len(ms) THEN total ELSE reduceMs(ms, i + 1, total + ms[i])

\* calculateTotalTime: ms is the array of the answers' `ms`
calculateTotalTime(ms) == reduceMs(ms, 1, 0)

\* the handler's lines 123-124 and 128: the score, the total time and the streak's verdict
\* of one list of answers (each answer is [correct, ms])
Score(answers) ==
    /\ \E correct \in {[i \in 1..Len(answers) |-> answers[i].correct]} :
           last' = [op |-> "score", answers |-> answers,
                    score |-> computeScore(correct), perfect |-> perfect(correct),
                    timeMs |-> calculateTotalTime([i \in 1..Len(answers) |-> answers[i].ms]),
                    passed |-> passed(computeScore(correct), Len(answers))]
    /\ UNCHANGED <<gameVars, callVars, hangmanVars, userStore, requests, poolVars, puzzleVars>>

UserKeys == {"streak", "maxStreak", "lastPlayed"}
Reqs     == {"r1", "r2"}

IdleRequest ==
    [pc |-> "idle", seed |-> <<>>, answers |-> <<>>, score |-> 0,
     toRead |-> {}, got |-> [k \in UserKeys |-> <<>>],
     newStreak |-> 0, maxStreak |-> 0, toWrite |-> {},
     stored |-> [k \in UserKeys |-> <<>>]]

\* the handler up to `await GameStorage.getUserState(userId)`: computeScore, and the three
\* redis.get of getUserState are issued; stored (history) is what the specification
\* records of the user's keys at this moment
SubmitResult(r, seed, answers, stored) ==
    /\ requests[r].pc = "idle"
    /\ requests' = [requests EXCEPT ![r] =
           [IdleRequest EXCEPT !.pc = "getUserState", !.seed = seed, !.answers = answers,
                               !.score = computeScore(answers), !.toRead = UserKeys,
                               !.stored = stored]]
    /\ UNCHANGED <<gameVars, callVars, hangmanVars, userStore, last, poolVars, puzzleVars>>

\* the keys updateUserState sets, lines 22-26: lastPlayed only when the seed is truthy
keysToSet(seed) == {"streak", "maxStreak"} \cup (IF seed # <<>> THEN {"lastPlayed"} ELSE {})

\* the store answers one redis.get of getUserState; with the last answer the handler goes
\* on to updateStreak and Math.max and issues the redis.set of updateUserState
RedisGet(r, key) ==
    /\ requests[r].pc = "getUserState"
    /\ key \in requests[r].toRead
    /\ LET req       == requests[r]
           got       == [req.got EXCEPT ![key] = userStore[key]]
           newStreak == updateStreak(parseStored(got["streak"]), req.score, Len(req.answers))
           maxStreak == Max(parseStored(got["maxStreak"]), newStreak)
       IN  requests' = [requests EXCEPT ![r] =
               IF req.toRead = {key}
               THEN [req EXCEPT !.pc = "updateUserState", !.toRead = {}, !.got = got,
                                !.newStreak = newStreak, !.maxStreak = maxStreak,
                                !.toWrite = keysToSet(req.seed)]
               ELSE [req EXCEPT !.toRead = @ \ {key}, !.got = got]]
    /\ UNCHANGED <<gameVars, callVars, hangmanVars, userStore, last, poolVars, puzzleVars>>

\* updateUserState with the streak written as an increment of the stored value (INCR)
\* when the game was passed, and not as the value the handler computed from what it read
RedisSetIncrement(r, key) ==
    /\ requests[r].pc = "updateUserState"
    /\ key \in requests[r].toWrite
    /\ LET req   == requests[r]
           value == CASE key = "streak"     ->
                           NatToString(IF req.newStreak = 0 THEN 0
                                       ELSE parseStored(userStore["streak"]) + 1)
                      [] key = "maxStreak"  -> NatToString(req.maxStreak)
                      [] key = "lastPlayed" -> req.seed
       IN  /\ userStore' = [userStore EXCEPT ![key] = <<value>>]
           /\ requests' = [requests EXCEPT ![r] =
                  [req EXCEPT !.toWrite = @ \ {key},
                              !.pc = IF req.toWrite = {key} THEN "saveUserResult" ELSE @]]
    /\ UNCHANGED <<gameVars, callVars, hangmanVars, last, poolVars, puzzleVars>>

\* the store executes one redis.set of updateUserState
RedisSet(r, key) ==
    /\ requests[r].pc = "updateUserState"
    /\ key \in requests[r].toWrite
    /\ LET req   == requests[r]
           value == CASE key = "streak"     -> NatToString(req.newStreak)
                      [] key = "maxStreak"  -> NatToString(req.maxStreak)
                      [] key = "lastPlayed" -> req.seed
       IN  /\ userStore' = [userStore EXCEPT ![key] = <<value>>]
           /\ requests' = [requests EXCEPT ![r] =
                  [req EXCEPT !.toWrite = @ \ {key},
                              !.pc = IF req.toWrite = {key} THEN "saveUserResult" ELSE @]]
    /\ UNCHANGED <<gameVars, callVars, hangmanVars, last, poolVars, puzzleVars>>

\* saveUserResult and the response
SaveUserResult(r) ==
    /\ requests[r].pc = "saveUserResult"
    /\ userStore' = [userStore EXCEPT !["played"] = @ \cup {requests[r].seed}]
    /\ last' = [op |-> "submitResult", score |-> requests[r].score,
                newStreak |-> requests[r].newStreak, maxStreak |-> requests[r].maxStreak]
    /\ requests' = [requests EXCEPT ![r] = IdleRequest]
    /\ UNCHANGED <<gameVars, callVars, hangmanVars, poolVars, puzzleVars>>

\* String.prototype.includes
Includes(str, sub) ==
    \E i \in 0..(Len(str) - Len(sub)) : SubSeq(str, i + 1, i + Len(sub)) = sub

\* the handler's catch, lines 163-169: `Result error: ${error.message}` for an Error
ResultErrorPrefix == <<"R","e","s","u","l","t"," ","e","r","r","o","r",":"," ">>
resultErrorMessage(error) == ResultErrorPrefix \o error

\* the value updateUserState sets under key, lines 23-25
valueToSet(req, key) ==
    CASE key = "streak"     -> NatToString(req.newStreak)
      [] key = "maxStreak"  -> NatToString(req.maxStreak)
      [] key = "lastPlayed" -> req.seed

\* a command of the store rejects with an Error whose message is error: one of the
\* redis.get of getUserState, one of the redis.set of updateUserState (key; of the other
\* sets still in flight the store has executed those in done), or the redis.set of
\* saveUserResult. The await throws, the catch answers 400.
RedisThrows(r, error, key, done) ==
    /\ requests[r].pc \in {"getUserState", "updateUserState", "saveUserResult"}
    /\ IF requests[r].pc = "updateUserState"
       THEN /\ key \in requests[r].toWrite
            /\ done \subseteq requests[r].toWrite \ {key}
            /\ userStore' = [k \in DOMAIN userStore |->
                                 IF k \in done THEN <<valueToSet(requests[r], k)>>
                                 ELSE userStore[k]]
       ELSE /\ key = "streak" /\ done = {}
            /\ UNCHANGED userStore
    /\ last' = [op |-> "submitResult", status |-> 400,
                message |-> resultErrorMessage(error), error |-> error,
                at |-> requests[r].pc, seed |-> requests[r].seed,
                before |-> requests[r].stored]
    /\ requests' = [requests EXCEPT ![r] = IdleRequest]
    /\ UNCHANGED <<gameVars, callVars, hangmanVars, poolVars, puzzleVars>>

-----------------------------------------------------------------------------
(* The streak's specifications: requests that overlap, and one request at a time *)

MaxStreak == 2      \* no game is submitted once the stored streak has reached this

\* the seeds submitted: today's, and the empty string
SubmittedSeeds   == {getTodaySeed(Today, De), <<>>}
\* k correct answers out of n
AnswersOf(k, n)  == [i \in 1..n |-> i <= k]
SubmittedAnswers == {AnswersOf(5, 8), AnswersOf(4, 8), AnswersOf(1, 3)}
\* the games submitted by requests that overlap: today's, passed or failed
OverlapAnswers   == {AnswersOf(5, 8), AnswersOf(4, 8)}

StreakNext ==
    \/ \E r \in Reqs, answers \in OverlapAnswers :
           /\ parseStored(userStore["streak"]) < MaxStreak
           /\ SubmitResult(r, getTodaySeed(Today, De), answers, IdleRequest.stored)
    \/ \E r \in Reqs, key \in UserKeys : RedisGet(r, key)
    \/ \E r \in Reqs, key \in UserKeys : RedisSet(r, key)
    \/ \E r \in Reqs : SaveUserResult(r)

StreakSeqNext ==
    \/ \E r \in Reqs, seed \in SubmittedSeeds, answers \in SubmittedAnswers :
           /\ \A q \in Reqs : requests[q].pc = "idle"
           /\ parseStored(userStore["streak"]) < MaxStreak
           /\ SubmitResult(r, seed, answers, [k \in UserKeys |-> userStore[k]])
    \/ \E r \in Reqs, key \in UserKeys : RedisGet(r, key)
    \/ \E r \in Reqs, key \in UserKeys : RedisSet(r, key)
    \/ \E r \in Reqs : SaveUserResult(r)

\* the messages of the Errors the store rejects with
EIO == <<"E","I","O">>
StoreErrors == {EIO}

\* one request at a time, a store whose commands can fail, and games of no answers
SubmitNext ==
    \/ \E r \in Reqs, seed \in SubmittedSeeds, answers \in SubmittedAnswers \cup {<<>>} :
           /\ \A q \in Reqs : requests[q].pc = "idle"
           /\ parseStored(userStore["streak"]) < MaxStreak
           /\ SubmitResult(r, seed, answers,
                           [k \in UserKeys |-> userStore[k]] @@ [played |-> userStore["played"]])
    \/ \E r \in Reqs, key \in UserKeys : RedisGet(r, key)
    \/ \E r \in Reqs, key \in UserKeys : RedisSet(r, key)
    \/ \E r \in Reqs : SaveUserResult(r)
    \/ \E r \in Reqs, error \in StoreErrors, key \in UserKeys, done \in SUBSET UserKeys :
           RedisThrows(r, error, key, done)

-----------------------------------------------------------------------------
(* Hangman scoring: HangmanManager.calculateScore *)

\* `new Set(word.toLowerCase().split('')).size`
uniqueLettersInWord(word) == Cardinality(Range(ToLowerCase(word)))

\* the time bonus with bounds that are included (30 s still earns 50)
timeBonusInclusive(timeMs) ==
    IF timeMs <= 30000 THEN 50 ELSE IF timeMs <= 60000 THEN 30 ELSE IF timeMs <= 90000 THEN 15 ELSE 0

\* lines 111-118: timeSeconds = timeMs / 1000 is compared with 30, 60 and 90
timeBonus(timeMs) ==
    IF timeMs < 30000 THEN 50 ELSE IF timeMs < 60000 THEN 30 ELSE IF timeMs < 90000 THEN 15 ELSE 0

\* lines 124-130
efficiencyBonus(correctGuesses, unique) ==
    IF correctGuesses <= unique THEN 50
    ELSE IF correctGuesses <= unique + 2 THEN 25 ELSE 0

\* calculateScore: guesses is the array of the guesses' `correct`. On a loss,
\* Math.floor(correctGuesses / uniqueLettersInWord * 50) is computed in doubles; for fewer
\* than 23 correct guesses it is the integer quotient of 50 * correctGuesses
calculateScore(word, guesses, success, timeMs) ==
    LET incorrectGuesses == Cardinality({i \in 1..Len(guesses) : ~guesses[i]})
        correctGuesses   == Cardinality({i \in 1..Len(guesses) : guesses[i]})
    IN  [score |->
            IF success
            THEN 100 + (6 - incorrectGuesses) * 15 + timeBonus(timeMs)
                     + efficiencyBonus(correctGuesses, uniqueLettersInWord(word))
            ELSE (50 * correctGuesses) \div uniqueLettersInWord(word),
         perfect |-> success /\ ~(\E i \in 1..Len(guesses) : ~guesses[i])]

\* one call of calculateScore with the arguments that `last` holds
CalculateScore ==
    /\ last.op = "call calculateScore"
    /\ last' = [op |-> "calculateScore", word |-> last.word, guesses |-> last.guesses,
                success |-> last.success, timeMs |-> last.timeMs,
                ret |-> calculateScore(last.word, last.guesses, last.success, last.timeMs)]
    /\ UNCHANGED <<gameVars, callVars, hangmanVars, userStore, requests, poolVars, puzzleVars>>

-----------------------------------------------------------------------------
(* Hangman scoring's specification: the calls of calculateScore *)

MaxGuesses == 8

ScoredWords == {Apfel, Ab, Otto, Wissenschaft}

\* around the bounds of the time bonus
ScoredTimes == {20000, 29999, 30000, 59999, 60000, 89999, 90000}

\* every pattern of correct and incorrect guesses, of every length up to MaxGuesses
ScoredGuesses == UNION {[1..n -> BOOLEAN] : n \in 0..MaxGuesses}

HangmanScoreNext == CalculateScore

-----------------------------------------------------------------------------
(* Words for a game: getWordByIndex, getRandomWord; HangmanManager's games *)

\* getWords alone, with no enrichment when the tier has no word
wordsNoEnrich(difficulty, resp, category, length, readOk, saveOk) ==
    LET pool == initialize(readOk)
    IN  [pool |-> pool, store |-> redisWords, found |-> Len(pool[difficulty]),
         requests |-> 0, words |-> pool[difficulty]]

\* lines 46-50 (and 31-36): getWords, and when the tier has no word one call of
\* enrichWithRandomGermanWords(6) and getWords again. requests counts the requests sent
\* to the provider; found is the length of what the first getWords returned
wordsOrEnrich(difficulty, resp, category, length, readOk, saveOk) ==
    LET pool == initialize(readOk)
    IN  IF Len(pool[difficulty]) > 0
        THEN [pool |-> pool, store |-> redisWords, found |-> Len(pool[difficulty]),
              requests |-> 0, words |-> pool[difficulty]]
        ELSE LET fetched == fetchRandomGermanWords(resp, category, length)
                 done    == enrichRandomLoop(fetched, 1,
                                [pool |-> pool, byDifficulty |-> NoneByDifficulty, added |-> 0])
             IN  [pool |-> done.pool,
                  store |-> persistByDifficulty(redisWords, done.byDifficulty, saveOk, 1),
                  found |-> 0, requests |-> 1, words |-> done.pool[difficulty]]

NoWords == "No words available in Redis for difficulty"

\* words[index] of a JavaScript array, for an index that is not negative
At(words, index) == words[index + 1]

\* getWordByIndex taking the tier's first word whatever the index
wordAtFirstIndex(words, index) ==
    IF Len(words) = 0 THEN [error |-> NoWords, ret |-> <<>>]
    ELSE [error |-> "", ret |-> <<At(words, 0)>>]

\* getWordByIndex, lines 51-55, for an index that is not negative: the error thrown ("" when
\* none) and what is returned (<<>> is undefined)
wordAtIndex(words, index) ==
    IF Len(words) = 0 THEN [error |-> NoWords, ret |-> <<>>]
    ELSE [error |-> "", ret |-> <<At(words, index % Len(words))>>]

\* getRandomWord, lines 37-41: Math.floor(Math.random() * words.length) is any index
wordAtRandom(words) ==
    IF Len(words) = 0 THEN {[error |-> NoWords, ret |-> <<>>]}
    ELSE {[error |-> "", ret |-> <<At(words, randomIndex)>>] : randomIndex \in 0..(Len(words) - 1)}

\* getWordByIndex
GetWordByIndex(difficulty, index, resp, category, length, readOk, saveOk) ==
    \E run \in {wordsOrEnrich(difficulty, resp, category, length, readOk, saveOk)} :
    \E got \in {wordAtIndex(run.words, index)} :
        /\ isInitialized' = TRUE
        /\ enrichedWords' = run.pool
        /\ redisWords' = run.store
        /\ last' = [op |-> "getWordByIndex", difficulty |-> difficulty, index |-> index,
                    found |-> run.found, requests |-> run.requests,
                    error |-> got.error, ret |-> got.ret]
        /\ UNCHANGED <<gameVars, callVars, hangmanVars, puzzleVars, streakVars>>

\* getRandomWord
GetRandomWord(difficulty, resp, category, length, readOk, saveOk) ==
    \E run \in {wordsOrEnrich(difficulty, resp, category, length, readOk, saveOk)} :
    \E got \in wordAtRandom(run.words) :
        /\ isInitialized' = TRUE
        /\ enrichedWords' = run.pool
        /\ redisWords' = run.store
        /\ last' = [op |-> "getRandomWord", difficulty |-> difficulty,
                    found |-> run.found, requests |-> run.requests,
                    error |-> got.error, ret |-> got.ret]
        /\ UNCHANGED <<gameVars, callVars, hangmanVars, puzzleVars, streakVars>>

\* createHangmanGame, line 13: `${dateStr}:${language}:hangman`
hangmanSeed(dateStr, language) ==
    dateStr \o <<":">> \o language \o <<":","h","a","n","g","m","a","n">>

\* createPracticeGame, line 60: `${dateStr}:${language}:hangman:practice:${Date.now()}`
practiceSeed(dateStr, language, now) ==
    hangmanSeed(dateStr, language) \o <<":","p","r","a","c","t","i","c","e",":">> \o now

\* line 22: Array.from(seed).reduce((acc, char) => acc + char.charCodeAt(0), 0)
RECURSIVE seedNumFrom(_, _)
seedNumFrom(seed, acc) ==
    IF seed = <<>> THEN acc ELSE seedNumFrom(Tail(seed), acc + CharCode(Head(seed)))

seedNum(seed) == seedNumFrom(seed, 0)

\* createHangmanGame and createPracticeGame: `maxAttempts: 6`
MaxAttempts == 6

\* the game that lines 34-45 and 72-83 build
HangmanGame(seed, language, dateStr, wordData, difficulty, source) ==
    [id |-> seed, lang |-> language, date |-> dateStr, word |-> wordData.word,
     hint |-> wordData.hint, maxAttempts |-> MaxAttempts, difficulty |-> difficulty,
     source |-> source]

\* GameStorage.getHangmanGame answering null for every seed
getHangmanGameNull(seed) == <<>>

\* GameStorage.getHangmanGame: JSON.parse of what saveHangmanGame wrote with
\* JSON.stringify, a game of strings and a number, which the two leave as it is
getHangmanGame(seed) == hangmanGames[seed]

\* createHangmanGame. calls lists the calls of GameStorage that it makes
CreateHangmanGame(dateStr, language, difficulty, resp, category, length, readOk, saveOk) ==
    \E seed \in {hangmanSeed(dateStr, language)} :
    \E existingGame \in {getHangmanGame(seed)} :
        IF existingGame # <<>>
        THEN /\ last' = [op |-> "createHangmanGame", seed |-> seed, difficulty |-> difficulty,
                         found |-> 0, requests |-> 0, error |-> "", ret |-> existingGame,
                         calls |-> <<"getHangmanGame">>]
             /\ UNCHANGED <<gameVars, callVars, hangmanVars, poolVars, puzzleVars, streakVars>>
        ELSE \E run \in {wordsOrEnrich(difficulty, resp, category, length, readOk, saveOk)} :
             \E got \in {wordAtIndex(run.words, seedNum(seed))} :
                 /\ isInitialized' = TRUE
                 /\ enrichedWords' = run.pool
                 /\ redisWords' = run.store
                 /\ IF got.error # ""
                    THEN /\ hangmanGames' = hangmanGames
                         /\ last' = [op |-> "createHangmanGame", seed |-> seed,
                                     difficulty |-> difficulty,
                                     found |-> run.found, requests |-> run.requests,
                                     error |-> got.error, ret |-> <<>>,
                                     calls |-> <<"getHangmanGame">>]
                    ELSE \E game \in {HangmanGame(seed, language, dateStr, got.ret[1],
                                                   difficulty, "hangman")} :
                         /\ hangmanGames' = [hangmanGames EXCEPT ![game.id] = <<game>>]
                         /\ last' = [op |-> "createHangmanGame", seed |-> seed,
                                     difficulty |-> difficulty,
                                     found |-> run.found, requests |-> run.requests,
                                     error |-> "", ret |-> <<game>>,
                                     calls |-> <<"getHangmanGame", "saveHangmanGame">>]
                 /\ UNCHANGED <<gameVars, callVars, session, puzzleVars, streakVars>>

\* createPracticeGame at the time now of the day dateStr
CreatePracticeGame(dateStr, now, language, difficulty, resp, category, length, readOk, saveOk) ==
    \E seed \in {practiceSeed(dateStr, language, now)} :
    \E run \in {wordsOrEnrich(difficulty, resp, category, length, readOk, saveOk)} :
    \E got \in wordAtRandom(run.words) :
        /\ isInitialized' = TRUE
        /\ enrichedWords' = run.pool
        /\ redisWords' = run.store
        /\ last' = [op |-> "createPracticeGame", seed |-> seed, difficulty |-> difficulty,
                    found |-> run.found, requests |-> run.requests, error |-> got.error,
                    ret |-> IF got.error # "" THEN <<>>
                            ELSE <<HangmanGame(seed, language, dateStr, got.ret[1],
                                               difficulty, "practice")>>,
                    calls |-> <<>>]
        /\ UNCHANGED <<gameVars, callVars, hangmanVars, puzzleVars, streakVars>>

\* another process of the server (it has its own pool in memory) saves words of a tier:
\* its saveToRedis, with the hSet answered
OtherProcessSaves(difficulty, words) ==
    /\ redisWords' = saveToRedis(redisWords, difficulty, words, TRUE)
    /\ last' = [op |-> "saveToRedis elsewhere", difficulty |-> difficulty]
    /\ UNCHANGED <<gameVars, callVars, isInitialized, enrichedWords, hangmanVars, puzzleVars, streakVars>>

-----------------------------------------------------------------------------
(* The hangman games' specification: one request at a time *)

HangmanDates == {Today}

\* the tiers that games ask for
HangmanTiers == {"easy", "medium"}

HangmanSeeds == {hangmanSeed(d, De) : d \in HangmanDates}

\* Date.now() when a practice game is created
PracticeNow == <<"1","7","6","2","0","7","0","4","0","0","0","0","0">>

\* what the provider answers to the one request of a word request: a failure, no word,
\* words of another tier than easy, words of two tiers
HangmanResponses ==
    { [kind |-> "networkError", words |-> <<>>],
      [kind |-> "httpError", words |-> <<schule>>],
      [kind |-> "words", words |-> <<>>],
      [kind |-> "words", words |-> <<schule>>],
      [kind |-> "words", words |-> <<Apfel, schule>>] }

\* the words that addWord adds between two word requests
HangmanAddWords == {Ab, Obst}

\* the indexes getWordByIndex is asked for: within a tier's words and beyond them
WordIndexes == {1, 5}

HangmanNext ==
    \/ \E d \in HangmanDates, difficulty \in HangmanTiers, resp \in HangmanResponses,
          readOk \in ReadOutcomes, saveOk \in SaveOutcomes :
            CreateHangmanGame(d, De, difficulty, resp, "wordle", 4, readOk, saveOk)
    \/ \E difficulty \in HangmanTiers, resp \in HangmanResponses,
          readOk \in ReadOutcomes, saveOk \in SaveOutcomes :
            CreatePracticeGame(Today, PracticeNow, De, difficulty, resp, "wordle", 4,
                               readOk, saveOk)
    \/ \E difficulty \in HangmanTiers, index \in WordIndexes, resp \in HangmanResponses,
          readOk \in ReadOutcomes, saveOk \in SaveOutcomes :
            GetWordByIndex(difficulty, index, resp, "wordle", 4, readOk, saveOk)
    \/ \E difficulty \in HangmanTiers, resp \in HangmanResponses,
          readOk \in ReadOutcomes, saveOk \in SaveOutcomes :
            GetRandomWord(difficulty, resp, "wordle", 4, readOk, saveOk)
    \/ \E word \in HangmanAddWords, readOk \in ReadOutcomes, saveOk \in BOOLEAN :
            AddWord(word, CustomHint, NoTier, readOk, saveOk)
    \/ OtherProcessSaves("medium", <<[word |-> schule, hint |-> CustomHint]>>)

-----------------------------------------------------------------------------
(* The client's hangman session: the Hangman component and its Timer *)

\* no Hangman component is mounted
NoSession ==
    [mounted |-> FALSE, word |-> <<>>, guesses |-> <<>>, gameOver |-> FALSE,
     success |-> FALSE, isTimerRunning |-> FALSE, completed |-> <<>>]

\* the component's state at its first render, lines 16-20
MountedSession(word) ==
    [NoSession EXCEPT !.mounted = TRUE, !.word = word, !.isTimerRunning = TRUE]

\* `game.word.toLowerCase().includes(lowerLetter)`, for a letter
includes(str, letter) == \E i \in 1..Len(str) : str[i] = letter

\* wordGuessed with the word's letters as they are written
wordGuessedAsWritten(word, updatedGuesses) ==
    \A letter \in Range(word) :
        \E i \in 1..Len(updatedGuesses) : updatedGuesses[i].letter = letter

\* lines 31 and 70-72: every one of uniqueLetters is the letter of a guess
wordGuessed(word, updatedGuesses) ==
    \A letter \in Range(Dedup(ToLowerCase(word))) :
        \E i \in 1..Len(updatedGuesses) : updatedGuesses[i].letter = letter

\* `guesses.filter(g => !g.correct).length`
incorrectGuessesOf(guesses) == Cardinality({i \in 1..Len(guesses) : ~guesses[i].correct})

\* endGame: the three state setters and the call of onComplete
endGame(s, isSuccess, finalGuesses) ==
    [s EXCEPT !.gameOver = TRUE, !.success = isSuccess, !.isTimerRunning = FALSE,
              !.completed = Append(@, [success |-> isSuccess, guesses |-> finalGuesses])]

\* Game.tsx shows the Hangman component for a game
MountHangman(word) ==
    /\ ~session.mounted
    /\ session' = MountedSession(word)
    /\ last' = [op |-> "mount"]
    /\ UNCHANGED <<gameVars, callVars, hangmanGames, poolVars, puzzleVars, streakVars>>

\* handleLetterSelect: a click on a key of the keyboard
HandleLetterSelect(letter) ==
    /\ session.mounted
    /\ \E lowerLetter \in {LowerChar(letter)} :
         \E updatedGuesses \in
               {Append(session.guesses,
                       [letter |-> lowerLetter,
                        correct |-> includes(ToLowerCase(session.word), lowerLetter)])} :
           session' =
               IF session.gameOver THEN session
               ELSE IF \E i \in 1..Len(session.guesses) : session.guesses[i].letter = lowerLetter
               THEN session
               ELSE IF \/ wordGuessed(session.word, updatedGuesses)
                       \/ incorrectGuessesOf(updatedGuesses) >= MaxAttempts
               THEN endGame([session EXCEPT !.guesses = updatedGuesses],
                            wordGuessed(session.word, updatedGuesses), updatedGuesses)
               ELSE [session EXCEPT !.guesses = updatedGuesses]
    /\ last' = [op |-> "handleLetterSelect"]
    /\ UNCHANGED <<gameVars, callVars, hangmanGames, poolVars, puzzleVars, streakVars>>

\* handleTimerComplete: the Timer's interval finds no time left; the interval exists
\* while isRunning (part_010, lines 24-43)
HandleTimerComplete ==
    /\ session.mounted
    /\ session.isTimerRunning
    /\ session' = IF ~session.gameOver THEN endGame(session, FALSE, session.guesses)
                  ELSE session
    /\ last' = [op |-> "handleTimerComplete"]
    /\ UNCHANGED <<gameVars, callVars, hangmanGames, poolVars, puzzleVars, streakVars>>

-----------------------------------------------------------------------------
(* The hangman session's specification *)

\* the keys used, out of line 23's: each word below has seven letters that are not its own
alphabet == {"a", "b", "o", "t", "j", "q", "x", "y", "z"}

SessionWords == {Ab, Otto}

SessionNext ==
    \/ \E word \in SessionWords : MountHangman(word)
    \/ \E letter \in alphabet : HandleLetterSelect(letter)
    \/ HandleTimerComplete

-----------------------------------------------------------------------------
(* Scoring's specification: the lists of answers that are scored *)

MaxAnswers == 8

\* what an answer took, in ms: the same time for every answer, or a time that grows
MsProfiles(n) ==
    {[i \in 1..n |-> 1500], [i \in 1..n |-> 700 * i]}

\* every pattern of correct and incorrect answers, of every length up to MaxAnswers
ScoredAnswers ==
    UNION {{[i \in 1..n |-> [correct |-> c[i], ms |-> ms[i]]] :
                c \in [1..n -> BOOLEAN], ms \in MsProfiles(n)} : n \in 0..MaxAnswers}

ScoringNext == \E answers \in ScoredAnswers : Score(answers)

-----------------------------------------------------------------------------
(* The client's word-match game: the Game component *)

ChoiceKeys == {"A", "B", "C"}

\* content.ts: the answerKey of w1..w12
answerKeyOf == <<"B", "A", "C", "B", "C", "A", "B", "A", "B", "C", "A", "B">>

\* the item w{n} as the component uses it
WordMatchItem(n) == [id |-> n, answerKey |-> answerKeyOf[n]]

\* before the component is mounted
NoGame ==
    [mounted |-> FALSE, items |-> <<>>, currentItemIndex |-> 0, answers |-> <<>>,
     selectedChoice |-> <<>>, isTimerRunning |-> FALSE, timeout |-> FALSE,
     completed |-> <<>>]

\* the useState initial values, lines 11-15
MountedGame(items) ==
    [NoGame EXCEPT !.mounted = TRUE, !.items = items, !.isTimerRunning = TRUE]

\* line 17: puzzle.items[currentItemIndex], undefined past the end, null for a null item
currentItem(g) ==
    IF g.currentItemIndex + 1 \in DOMAIN g.items THEN g.items[g.currentItemIndex + 1]
    ELSE Undefined

\* `!currentItem`
noItem(g) == currentItem(g) \in {Undefined, Null}

\* handleChoiceSelect, lines 40-72, up to setTimeout: the state it leaves
handleChoiceSelect(g, choice, timeSpent) ==
    IF g.selectedChoice # <<>> THEN g
    ELSE [g EXCEPT !.selectedChoice = <<choice>>,
                   !.answers = Append(@, [itemId  |-> currentItem(g).id,
                                          pick    |-> choice,
                                          correct |-> choice = currentItem(g).answerKey,
                                          ms      |-> timeSpent]),
                   !.isTimerRunning = FALSE,
                   !.timeout = TRUE]

\* the component is rendered with a puzzle
MountGame(items) ==
    /\ ~wordMatch.mounted
    /\ wordMatch' = MountedGame(items)
    /\ last' = [op |-> "mountGame"]
    /\ UNCHANGED <<callVars, hangmanVars, poolVars, puzzleVars, streakVars>>

\* the user clicks a choice (the buttons are disabled once a choice is selected)
HandleChoiceSelect(choice, timeSpent) ==
    /\ wordMatch.mounted /\ wordMatch.completed = <<>> /\ ~noItem(wordMatch)
    /\ wordMatch.selectedChoice = <<>>
    /\ wordMatch' = handleChoiceSelect(wordMatch, choice, timeSpent)
    /\ last' = [op |-> "handleChoiceSelect", item |-> currentItem(wordMatch),
                answer |-> wordMatch'.answers[Len(wordMatch'.answers)]]
    /\ UNCHANGED <<callVars, hangmanVars, poolVars, puzzleVars, streakVars>>

\* handleTimerComplete, lines 75-80: the Timer runs out, or the user clicks Skip (shown
\* while no choice is selected)
HandleGameTimerComplete(timeSpent) ==
    /\ wordMatch.mounted /\ wordMatch.completed = <<>> /\ ~noItem(wordMatch)
    /\ wordMatch.isTimerRunning \/ wordMatch.selectedChoice = <<>>
    /\ wordMatch' = IF wordMatch.selectedChoice = <<>> THEN handleChoiceSelect(wordMatch, "A", timeSpent)
               ELSE wordMatch
    /\ last' = [op |-> "handleTimerComplete", item |-> currentItem(wordMatch),
                answer |-> wordMatch'.answers[Len(wordMatch'.answers)]]
    /\ UNCHANGED <<callVars, hangmanVars, poolVars, puzzleVars, streakVars>>

\* the callback of setTimeout, lines 61-71, one second after the answer
AfterDelay ==
    /\ wordMatch.timeout
    /\ wordMatch' = IF wordMatch.currentItemIndex < Len(wordMatch.items) - 1
               THEN [wordMatch EXCEPT !.timeout = FALSE, !.currentItemIndex = @ + 1,
                                 !.selectedChoice = <<>>, !.isTimerRunning = TRUE]
               ELSE [wordMatch EXCEPT !.timeout = FALSE, !.completed = <<wordMatch.answers>>]
    /\ last' = [op |-> "afterDelay"]
    /\ UNCHANGED <<callVars, hangmanVars, poolVars, puzzleVars, streakVars>>

\* lines 20-32: there is no current item, the user clicks "Return to Home"
ReturnToHome ==
    /\ wordMatch.mounted /\ wordMatch.completed = <<>> /\ noItem(wordMatch)
    /\ wordMatch' = [wordMatch EXCEPT !.completed = <<(<<>>)>>]
    /\ last' = [op |-> "returnToHome"]
    /\ UNCHANGED <<callVars, hangmanVars, poolVars, puzzleVars, streakVars>>

-----------------------------------------------------------------------------
(* The word-match game's specification *)

\* the puzzles played: items of the default bank, and a puzzle with a null item
GamePuzzles ==
    {<<WordMatchItem(1), WordMatchItem(2), WordMatchItem(3)>>,
     <<WordMatchItem(6), WordMatchItem(4)>>,
     <<WordMatchItem(2), Null>>}

\* the milliseconds between an item's display and its answer
GameTimes == {700, 10000}

GameNext ==
    \/ \E items \in GamePuzzles : MountGame(items)
    \/ \E choice \in ChoiceKeys, timeSpent \in GameTimes : HandleChoiceSelect(choice, timeSpent)
    \/ \E timeSpent \in GameTimes : HandleGameTimerComplete(timeSpent)
    \/ AfterDelay
    \/ ReturnToHome

-----------------------------------------------------------------------------
(* The router: the routes of index.ts in the order they are registered *)

\* the segments of the paths
SegApi      == <<"a","p","i">>
SegInit     == <<"i","n","i","t">>
SegPuzzle   == <<"p","u","z","z","l","e">>
SegToday    == <<"t","o","d","a","y">>
SegSeed     == <<":","s","e","e","d">>
SegSubmit   == <<"s","u","b","m","i","t","-","r","e","s","u","l","t">>
SegUser     == <<"u","s","e","r">>
SegUserId   == <<":","u","s","e","r","I","d">>
SegState    == <<"s","t","a","t","e">>
SegReddit   == <<"r","e","d","d","i","t">>
SegRefresh  == <<"r","e","f","r","e","s","h">>
SegCreate   == <<"c","r","e","a","t","e">>
SegInternal == <<"i","n","t","e","r","n","a","l">>
SegInstall  == <<"o","n","-","a","p","p","-","i","n","s","t","a","l","l">>
SegMenu     == <<"m","e","n","u">>
SegPostCreate == <<"p","o","s","t","-","c","r","e","a","t","e">>

\* router.get / router.post, lines 30-316: method, path and handler, in source order
Routes ==
    << [method |-> "GET",  path |-> <<SegApi, SegInit>>,                      handler |-> "init"],
       [method |-> "GET",  path |-> <<SegApi, SegPuzzle, SegToday>>,          handler |-> "puzzleToday"],
       [method |-> "GET",  path |-> <<SegApi, SegPuzzle, SegSeed>>,           handler |-> "puzzleBySeed"],
       [method |-> "POST", path |-> <<SegApi, SegSubmit>>,                    handler |-> "submitResult"],
       [method |-> "GET",  path |-> <<SegApi, SegUser, SegUserId, SegState>>, handler |-> "userState"],
       [method |-> "GET",  path |-> <<SegApi, SegReddit, SegRefresh>>,        handler |-> "redditRefresh"],
       [method |-> "GET",  path |-> <<SegApi, SegReddit, SegPuzzle, SegCreate>>, handler |-> "redditPuzzleCreate"],
       [method |-> "GET",  path |-> <<SegApi, SegPuzzle, SegReddit>>,         handler |-> "puzzleReddit"],
       [method |-> "POST", path |-> <<SegInternal, SegInstall>>,              handler |-> "onAppInstall"],
       [method |-> "POST", path |-> <<SegInternal, SegMenu, SegPostCreate>>,  handler |-> "postCreate"] >>

\* a route's path matches a request's: segment by segment, a segment :name matches any
matches(routePath, path) ==
    /\ Len(routePath) = Len(path)
    /\ \A i \in DOMAIN path : Head(routePath[i]) = ":" \/ routePath[i] = path[i]

\* the routes, in the order registered, that a request matches
matching(method, path) ==
    SelectSeq(Routes, LAMBDA route : route.method = method /\ matches(route.path, path))

\* express.Router: the first route registered that matches handles the request (no
\* handler here calls next())
dispatch(method, path) ==
    IF matching(method, path) = <<>> THEN "notFound"
    ELSE Head(matching(method, path)).handler

\* the handler of GET /api/puzzle/reddit, lines 257-291
GetRedditPuzzle(date, lang, reply) ==
    LET seed        == redditSeed(date, lang)
        redditItems == fetchRedditContent(reply)
        puzzle      == [id |-> seed, lang |-> lang, date |-> date,
                        items |-> Slice(redditItems, 8), author |-> "reddit"]
        success     == Len(redditItems) >= 8
    IN  /\ puzzles' = IF puzzles[seed] # <<>> \/ ~success THEN puzzles
                      ELSE [puzzles EXCEPT ![seed] = <<JsonPuzzle(puzzle)>>]
        /\ last' = [op |-> "getRedditPuzzle", seed |-> seed,
                    status |-> IF puzzles'[seed] # <<>> THEN 200 ELSE 404,
                    ret |-> puzzles'[seed]]
        /\ UNCHANGED <<gameVars, callVars, hangmanVars, wordBank, firstReturned, poolVars, streakVars>>

\* a request arrives: the router dispatches it and the handler runs
Request(method, path, reply) ==
    \E handler \in {dispatch(method, path)} :
        CASE handler = "puzzleToday"        -> GetDailyPuzzle(getTodaySeed(Today, De))
          [] handler = "puzzleBySeed"       -> GetDailyPuzzle(path[3])
          [] handler = "redditRefresh"      -> RefreshWordBank(reply)
          [] handler = "redditPuzzleCreate" -> CreateRedditPuzzle(Today, De, reply)
          [] handler = "puzzleReddit"       -> GetRedditPuzzle(Today, De, reply)
          [] OTHER                          -> FALSE

-----------------------------------------------------------------------------
(* The router's specification: the GET requests for puzzles and Reddit content *)

RequestPaths ==
    {<<SegApi, SegPuzzle, SegToday>>,
     <<SegApi, SegPuzzle, SegReddit>>,
     <<SegApi, SegPuzzle, getTodaySeed(Today, De)>>,
     <<SegApi, SegReddit, SegRefresh>>,
     <<SegApi, SegReddit, SegPuzzle, SegCreate>>}

\* the seeds under which the requests can store a puzzle
RouteSeeds == {getTodaySeed(Today, De), redditSeed(Today, De), SegReddit, SegToday}

RoutesNext ==
    \E path \in RequestPaths, reply \in RedditReplies : Request("GET", path, reply)

-----------------------------------------------------------------------------
(* The specifications *)

Init ==
    /\ PoolInit
    /\ wordBank = <<>>
    /\ puzzles = [seed \in PuzzleSeeds |-> <<>>]
    /\ firstReturned = [seed \in PuzzleSeeds |-> <<>>]
    /\ userStore = [k \in UserKeys |-> <<>>] @@ [played |-> {}]
    /\ requests = [r \in Reqs |-> IdleRequest]
    /\ session = NoSession
    /\ hangmanGames = [seed \in HangmanSeeds |-> <<>>]
    /\ calls = [r \in Calls |-> IdleCall]
    /\ wordMatch = NoGame
    /\ last = [op |-> "start"]

\* the word pool
Next == PoolNext
Spec == Init /\ [][Next]_vars

\* the daily puzzle
SpecPuzzle == Init /\ [][PuzzleNext]_vars

\* the streak, with submit-result requests that overlap
SpecStreak == Init /\ [][StreakNext]_vars

\* the streak, one submit-result request at a time
SpecStreakSeq == Init /\ [][StreakSeqNext]_vars

\* the streak, one request at a time, with a store that can fail
SpecSubmit == Init /\ [][SubmitNext]_vars

\* the client's word-match game
SpecGame == Init /\ [][GameNext]_vars

\* the router: the stored puzzles are those of the seeds the requests can name
RoutesInit ==
    /\ PoolInit
    /\ wordBank = <<>>
    /\ puzzles = [seed \in RouteSeeds |-> <<>>]
    /\ firstReturned = [seed \in RouteSeeds |-> <<>>]
    /\ userStore = [k \in UserKeys |-> <<>>] @@ [played |-> {}]
    /\ requests = [r \in Reqs |-> IdleRequest]
    /\ session = NoSession
    /\ hangmanGames = [seed \in HangmanSeeds |-> <<>>]
    /\ calls = [r \in Calls |-> IdleCall]
    /\ wordMatch = NoGame
    /\ last = [op |-> "start"]

SpecRoutes == RoutesInit /\ [][RoutesNext]_vars

\* scoring
SpecScoring == Init /\ [][ScoringNext]_vars

\* hangman scoring: a call of calculateScore with its arguments is pending
HangmanScoreInit ==
    /\ PoolInit
    /\ wordBank = <<>>
    /\ puzzles = [seed \in PuzzleSeeds |-> <<>>]
    /\ firstReturned = [seed \in PuzzleSeeds |-> <<>>]
    /\ userStore = [k \in UserKeys |-> <<>>] @@ [played |-> {}]
    /\ requests = [r \in Reqs |-> IdleRequest]
    /\ session = NoSession
    /\ hangmanGames = [seed \in HangmanSeeds |-> <<>>]
    /\ calls = [r \in Calls |-> IdleCall]
    /\ wordMatch = NoGame
    /\ last \in [op : {"call calculateScore"}, word : ScoredWords, guesses : ScoredGuesses,
                 success : BOOLEAN, timeMs : ScoredTimes]

SpecHangmanScore == HangmanScoreInit /\ [][HangmanScoreNext]_vars

\* the word pool, with calls that overlap
SpecOverlap == Init /\ [][OverlapNext]_vars

\* the hangman games and the words they ask for
SpecHangman == Init /\ [][HangmanNext]_vars

\* the client's hangman session
SpecSession == Init /\ [][SessionNext]_vars

-----------------------------------------------------------------------------
(* Properties of the word pool *)

\* two words compared case-insensitively
SameWord(a, b) == ToLowerCase(a) = ToLowerCase(b)
\* every tier of post starts with the same tier of pre
ExtendsPool(pre, post) ==
    \A t \in Tiers : /\ Len(post[t]) >= Len(pre[t])
                     /\ SubSeq(post[t], 1, Len(pre[t])) = pre[t]
\* the entries post has and pre has not
Appended(pre, post) ==
    UNION {{<<t, i>> : i \in (Len(pre[t]) + 1)..Len(post[t])} : t \in Tiers}

\* C1: after any sequence of addWord, enrichWithRandomGermanWords, enrichWithSeedWord and
\* searchAndAddWords calls, each run to completion, on a pool loaded without duplicates,
\* no two entries of the in-memory pool hold the same word compared case-insensitively,
\* in the same tier or in different tiers.
C1_PoolUniqueness ==
    \A t1 \in Tiers, t2 \in Tiers :
        \A i \in 1..Len(enrichedWords[t1]), j \in 1..Len(enrichedWords[t2]) :
            (t1 # t2 \/ i # j) => ~SameWord(enrichedWords[t1][i].word, enrichedWords[t2][j].word)

\* C1's case: the pool holds words in two tiers, one of them written with a capital, and
\* the last call met a word the pool already held
C1_Witness ==
    /\ enrichedWords["easy"] # <<>>
    /\ enrichedWords["hard"] # <<>>
    /\ \E t \in Tiers : \E i \in 1..Len(enrichedWords[t]) :
           enrichedWords[t][i].word # ToLowerCase(enrichedWords[t][i].word)
    /\ last.op = "addWord" /\ last.ret = FALSE

\* C2: addWord returns false and leaves the pool (as loaded) and the store unchanged when
\* the lower-cased, trimmed word equals case-insensitively a word of any tier, whatever
\* the tier argument; otherwise it returns true and appends exactly one entry, which holds
\* the normalized word.
C2_AddWord ==
    [][ last'.op = "addWord" =>
          LET pre        == initialize(last'.readOk)
              normalized == Trim(ToLowerCase(last'.word))
              present    == \E t \in Tiers : \E i \in 1..Len(pre[t]) :
                                SameWord(pre[t][i].word, normalized)
          IN  IF present
              THEN /\ last'.ret = FALSE
                   /\ enrichedWords' = pre
                   /\ redisWords' = redisWords
              ELSE /\ last'.ret = TRUE
                   /\ \E t \in Tiers :
                        enrichedWords' =
                            [pre EXCEPT ![t] = Append(@, [word |-> normalized,
                                                          hint |-> last'.hint])]
       ]_vars

\* C2's case: addWord("apfel ") with no tier given returned false while the pool held
\* "apfel" in the hard tier, where an addWord of that word put it
C2_Witness ==
    /\ last.op = "addWord" /\ last.word = apfelSpace /\ last.difficulty = NoTier
    /\ last.ret = FALSE
    /\ enrichedWords["hard"] = <<[word |-> apfel, hint |-> CustomHint]>>
    /\ enrichedWords["easy"] = <<>>

\* C3: enrichWithRandomGermanWords appends no word that the pool holds (compared
\* case-insensitively, in any tier) when it is appended, the words appended earlier by the
\* same call included, and it returns the number of entries it appended over the tiers.
C3_EnrichRandomNoDuplicate ==
    [][ last'.op = "enrichWithRandomGermanWords" =>
          LET pre  == initialize(last'.readOk)
              post == enrichedWords'
              new  == Appended(pre, post)
          IN  /\ ExtendsPool(pre, post)
              /\ Cardinality(new) = last'.ret
              /\ \A e \in new : \A t \in Tiers : \A j \in 1..Len(post[t]) :
                     <<t, j>> # e => ~SameWord(post[e[1]][e[2]].word, post[t][j].word)
       ]_vars

\* C3's case: the provider answered two words that are two elements of the Set (as
\* "apfel" and "Apfel" are), the pool held neither, and the call appended one entry, the
\* only one the pool holds, and returned 1
C3_Witness ==
    /\ last.op = "enrichWithRandomGermanWords"
    /\ last.received = 2 /\ last.kept = 2
    /\ last.ret = 1
    /\ AllWords(enrichedWords) = <<[word |-> apfel, hint |-> buildHint("wordle", 4)]>>

\* C4 as the specification states it: the call requests at most count words and adds at
\* most count words.
C4_AtMostCount ==
    last.op = "enrichWithRandomGermanWords" =>
        /\ last.requested <= last.count
        /\ last.ret <= last.count

\* C4, amended: the call requests 3 words when count < 3, 12 when count > 12 and count
\* otherwise, and it adds at most as many words as the provider answered.
C4_RequestedAndAdded ==
    last.op = "enrichWithRandomGermanWords" =>
        /\ last.requested = (IF last.count < 3 THEN 3
                             ELSE IF last.count > 12 THEN 12
                             ELSE last.count)
        /\ last.ret <= last.received

\* C4's case: count = 1, the provider answered two words and both were added
C4_Witness ==
    /\ last.op = "enrichWithRandomGermanWords"
    /\ last.count = 1
    /\ last.requested = 3
    /\ last.ret = 2

\* C5: when the provider fails (network error, non-2xx status, malformed payload),
\* enrichWithRandomGermanWords returns 0 and leaves the pool (as loaded) and the store
\* as they were.
C5_ProviderFailure ==
    [][ (last'.op = "enrichWithRandomGermanWords" /\ last'.kind \in FailureKinds) =>
          /\ last'.ret = 0
          /\ enrichedWords' = initialize(last'.readOk)
          /\ redisWords' = redisWords
       ]_vars

\* C5's case: a non-2xx answer to a call made on a pool that holds words
C5_Witness ==
    /\ last.op = "enrichWithRandomGermanWords"
    /\ last.kind = "httpError"
    /\ last.ret = 0
    /\ AllWords(enrichedWords) # <<>>

MaxWordLength == 12

\* the tier of a word of n characters: easy up to 5, medium from 6 to 9, hard from 10
TierOfLength(n) ==
    CASE n <= 5 -> "easy"
      [] n >= 6 /\ n <= 9 -> "medium"
      [] n >= 10 -> "hard"

EnrichmentOps == {"enrichWithRandomGermanWords", "enrichWithSeedWord", "searchAndAddWords"}

\* the two classifiers on the words of 1 to MaxWordLength characters, in either case
ClassifiersAgree ==
    \A n \in 1..MaxWordLength, c \in {"a", "B"} :
        \E word \in {[i \in 1..n |-> c]} :
            /\ estimateDifficulty(word) = TierOfLength(n)
            /\ estimateWordDifficulty(word) = TierOfLength(n)

C19_AddWordPersisted ==
    (last.op = "addWord" /\ last.ret) =>
        \E word \in {Trim(ToLowerCase(last.word))} :
        \E t \in Tiers :
            /\ \E i \in 1..Len(enrichedWords[t]) : enrichedWords[t][i].word = word
            /\ word \in DOMAIN redisWords[t]

-----------------------------------------------------------------------------
(* Properties of the daily puzzle *)

\* C6: for every seed, every call of getDailyPuzzle after the first returns the items the
\* first call returned, in the same order (compared as the response's JSON writes them),
\* whatever happened to the word bank in between.
C6_GetDailyPuzzleIdempotent ==
    (last.op = "getDailyPuzzle" /\ ~last.threw) =>
        JsonItems(last.ret.items) = JsonItems(firstReturned[last.seed][1])

\* C7: once a value is stored under wm:puzzle:{seed}, no later operation changes the
\* value stored under that key.
C7_PuzzleImmutable ==
    [][ \A seed \in PuzzleSeeds :
            puzzles[seed] # <<>> => puzzles'[seed] = puzzles[seed] ]_vars

\* C8: every puzzle getDailyPuzzle returns has exactly 8 items, for every word bank that
\* initializeContent and refreshWordBank can leave stored.
C8_EightItems ==
    (last.op = "getDailyPuzzle" /\ ~last.threw) => Len(last.ret.items) = 8

-----------------------------------------------------------------------------
(* Properties of the streak *)

\* the request r answers in this step
Responds(r) == requests[r].pc = "saveUserResult" /\ requests'[r].pc = "idle"

\* the stored string, "" when the key is absent
StoredString(value) == IF value = <<>> THEN <<>> ELSE value[1]

\* when r answers: with s and m the streak and maxStreak stored when r started and k of
\* its n answers correct, the store holds streak = (s + 1 if 8k >= 5n, else 0) and
\* maxStreak = the greater of m and that streak, and the response reports the two
StreakStored(r) ==
    LET req == requests[r]
        s   == parseStored(req.stored["streak"])
        m   == parseStored(req.stored["maxStreak"])
        k   == Cardinality({i \in DOMAIN req.answers : req.answers[i]})
        n   == Len(req.answers)
        new == IF 8 * k >= 5 * n THEN s + 1 ELSE 0
        max == IF new > m THEN new ELSE m
    IN  /\ userStore'["streak"] = <<NatToString(new)>>
        /\ userStore'["maxStreak"] = <<NatToString(max)>>
        /\ last'.newStreak = new
        /\ last'.maxStreak = max

\* C9 as the specification states it: a request that overlaps no other leaves
\* streak = s + 1 if k >= ceil(0.625 n) and 0 otherwise, maxStreak = max(m, streak) and
\* lastPlayed = the submitted seed, and reports that streak and maxStreak.
C9_StreakUpdate ==
    [][ \A r \in Reqs : Responds(r) =>
            /\ StreakStored(r)
            /\ StoredString(userStore'["lastPlayed"]) = requests[r].seed ]_vars

\* C9, amended: the same, but lastPlayed is the submitted seed only when that seed is a
\* non-empty string; with an empty seed lastPlayed stays what it was.
C9_StreakUpdateSeedGiven ==
    [][ \A r \in Reqs : Responds(r) =>
            /\ StreakStored(r)
            /\ userStore'["lastPlayed"] = IF requests[r].seed # <<>>
                                          THEN <<requests[r].seed>>
                                          ELSE requests[r].stored["lastPlayed"] ]_vars

\* C9's case: a failed game submitted with an empty seed was answered: the streak is back
\* at 0, maxStreak is still 1 and lastPlayed is still the seed of an earlier game
C9_Witness ==
    /\ last.op = "submitResult"
    /\ last.newStreak = 0 /\ last.maxStreak = 1
    /\ userStore["streak"] = <<NatToString(0)>>
    /\ userStore["maxStreak"] = <<NatToString(1)>>
    /\ userStore["lastPlayed"] = <<getTodaySeed(Today, De)>>
    /\ <<>> \in userStore["played"]
    /\ \A r \in Reqs : requests[r].pc = "idle"

\* C10: every write to user:{id}:maxStreak stores a value greater than or equal to the
\* value it replaces, whether the submit-result requests overlap or not.
C10_MaxStreakNeverDecreases ==
    [][ parseStored(userStore'["maxStreak"]) >= parseStored(userStore["maxStreak"]) ]_vars

\* r has passed its game: k of n answers correct with 8k >= 5n
Passed(r) == 8 * Cardinality({i \in DOMAIN requests[r].answers : requests[r].answers[i]})
                 >= 5 * Len(requests[r].answers)

\* r has done its reads and all its writes and has not answered yet
HasWritten(r) == requests[r].pc = "saveUserResult"

\* C11: when two passing submit-result requests of the user have both read the same
\* stored streak s (so both read before either wrote) and both have written, the stored
\* streak is s + 1, not s + 2: nothing makes the second write take the first into account.
C11_LostUpdate ==
    \A r \in Reqs, q \in Reqs :
        (r # q /\ HasWritten(r) /\ HasWritten(q) /\ Passed(r) /\ Passed(q)
              /\ requests[r].got["streak"] = requests[q].got["streak"]) =>
            parseStored(userStore["streak"]) = parseStored(requests[r].got["streak"]) + 1

\* C11's case: both requests passed, both read the streak 1 and both have written; the
\* stored streak is 2
C11_Witness ==
    /\ \A r \in Reqs : HasWritten(r) /\ Passed(r) /\ requests[r].got["streak"] = <<NatToString(1)>>
    /\ userStore["streak"] = <<NatToString(2)>>

-----------------------------------------------------------------------------
(* Properties of scoring *)

\* the indices of the answers marked correct
CorrectOf(answers) == {i \in DOMAIN answers : answers[i].correct}

\* the sum of the answers' ms, taken from the last answer backwards
RECURSIVE SumOfMs(_)
SumOfMs(answers) ==
    IF answers = <<>> THEN 0
    ELSE SumOfMs(SubSeq(answers, 1, Len(answers) - 1)) + answers[Len(answers)].ms

\* C12: for a list of n answers of which k are marked correct, the score is k, perfect is
\* k = n, passed is k >= ceil(0.625 n), that is 8k >= 5n (for n = 8: k >= 5), and the
\* total time is the sum of the answers' ms
C12_Scoring ==
    last.op = "score" =>
        \E n \in {Len(last.answers)}, k \in {Cardinality(CorrectOf(last.answers))} :
            /\ last.score = k
            /\ last.perfect = (k = n)
            /\ last.passed = (8 * k >= 5 * n)
            /\ (n = 8 => last.passed = (k >= 5))
            /\ last.timeMs = SumOfMs(last.answers)

\* C12's case: 8 answers of which 5 are correct, taking 700 + 1400 + ... + 5600 ms, passed
\* and not perfect
C12_Witness ==
    /\ last.op = "score"
    /\ Len(last.answers) = 8
    /\ last.score = 5
    /\ last.passed
    /\ ~last.perfect
    /\ last.timeMs = 25200

-----------------------------------------------------------------------------
(* Properties of hangman scoring *)

\* the distinct characters of the lower-cased word
UniqueOf(word) == {LowerChar(word[i]) : i \in DOMAIN word}

-----------------------------------------------------------------------------
(* Properties of the hangman session *)

\* the letters guessed in a session
GuessedLetters(s) == {s.guesses[i].letter : i \in DOMAIN s.guesses}

\* every distinct letter of the lower-cased word is guessed in s
AllGuessed(s) == \A i \in DOMAIN s.word : LowerChar(s.word[i]) \in GuessedLetters(s)

Won(s)  == s.gameOver /\ s.success
Lost(s) == s.gameOver /\ ~s.success

\* C14, a step of a session that is in the guessing state
C14_Guessing ==
    /\ Won(session') <=>
           /\ last'.op = "handleLetterSelect"
           /\ session'.guesses # session.guesses
           /\ AllGuessed(session')
    /\ Lost(session') <=>
           \/ /\ last'.op = "handleLetterSelect"
              /\ session'.guesses # session.guesses
              /\ incorrectGuessesOf(session'.guesses) = MaxAttempts
           \/ last'.op = "handleTimerComplete"

\* C14, a step of a session that is won or lost
C14_Over ==
    /\ session'.guesses = session.guesses
    /\ session'.gameOver
    /\ session'.success = session.success
    /\ session'.completed = session.completed

\* C14: a session leaves the guessing state for won exactly when, after a guess, every
\* distinct letter of the lower-cased word is guessed, and for lost exactly when the
\* incorrect guesses reach maxAttempts (6) or the timer expires; the incorrect guesses
\* never exceed 6; once won or lost, no guess is recorded and the outcome never changes
C14_SessionStateMachine ==
    [][session.mounted =>
          /\ ~session.gameOver => C14_Guessing
          /\ session.gameOver => C14_Over
          /\ incorrectGuessesOf(session'.guesses) <= MaxAttempts]_vars

\* C14's case: "Otto" is won by the guess that completes o and t, after five incorrect
\* guesses, and onComplete was called once
C14_Witness ==
    /\ session.word = Otto
    /\ Won(session)
    /\ incorrectGuessesOf(session.guesses) = 5
    /\ Len(session.completed) = 1
    /\ last.op = "handleLetterSelect"
    /\ GuessedLetters(session) = {"o", "t", "a", "b", "x", "y", "z"}

-----------------------------------------------------------------------------
(* Properties of the hangman games and of the words they ask for *)

\* C15: for a date and a language, every call of createHangmanGame after the one that
\* stored a game returns that game (same word and hint) and writes nothing, even if the
\* word pool has grown in between; createPracticeGame neither reads nor writes
\* hangman:game:*
C15_CreateIdempotent ==
    [][/\ \A seed \in HangmanSeeds :
              hangmanGames[seed] # <<>> => hangmanGames'[seed] = hangmanGames[seed]
       /\ last'.op = "createHangmanGame" =>
              IF hangmanGames[last'.seed] # <<>>
              THEN /\ last'.ret = hangmanGames[last'.seed]
                   /\ last'.calls = <<"getHangmanGame">>
                   /\ hangmanGames' = hangmanGames
              ELSE last'.error = "" => hangmanGames'[last'.seed] = last'.ret
       /\ last'.op = "createPracticeGame" =>
              /\ last'.calls = <<>>
              /\ hangmanGames' = hangmanGames]_vars

\* C15's case: createHangmanGame returned the stored game of its seed, and the tier's pool
\* has grown since, so that the seed's index now falls on another word
C15_Witness ==
    /\ last.op = "createHangmanGame"
    /\ last.calls = <<"getHangmanGame">>
    /\ last.ret # <<>>
    /\ last.ret = hangmanGames[last.seed]
    /\ \E game \in {last.ret[1]} :
          /\ Len(enrichedWords[game.difficulty]) > 1
          /\ wordAtIndex(enrichedWords[game.difficulty], seedNum(last.seed)).ret[1].word
                 # game.word

\* C16: once the pool of a tier is non-empty, getWordByIndex(tier, idx) does not throw for
\* idx >= 0, returns the pool's entry at position idx mod (pool size), also for
\* idx >= pool size, and triggers no enrichment
C16_WordByIndex ==
    [][(/\ last'.op = "getWordByIndex"
        /\ last'.index >= 0
        /\ Len(enrichedWords[last'.difficulty]) > 0) =>
           \E words \in {enrichedWords[last'.difficulty]} :
               /\ last'.error = ""
               /\ last'.ret = <<words[(last'.index % Len(words)) + 1]>>
               /\ last'.requests = 0
               /\ enrichedWords' = enrichedWords
               /\ redisWords' = redisWords]_vars

\* C16's case: index 5 was asked of a tier of three words, and the third was returned
\* without a request to the provider
C16_Witness ==
    /\ last.op = "getWordByIndex"
    /\ last.index = 5
    /\ last.found = 3
    /\ Len(enrichedWords[last.difficulty]) = 3
    /\ last.ret = <<enrichedWords[last.difficulty][3]>>
    /\ last.requests = 0

\* the operations that ask for a word of a tier
WordRequests == {"getWordByIndex", "getRandomWord", "createHangmanGame", "createPracticeGame"}

\* the tier has no word when the request looks: the pool in memory has none, or it is not
\* loaded yet and the store has none to load
TierEmpty(difficulty) ==
    IF isInitialized THEN enrichedWords[difficulty] = <<>> ELSE DOMAIN redisWords[difficulty] = {}

\* C17: when the tier's pool is empty, a word request makes exactly one request to the
\* provider; if the tier is still empty after it the request fails with "No words
\* available" and returns no word, and createHangmanGame stores no game; otherwise it
\* returns a word of the tier
C17_EmptyTier ==
    [][(/\ last'.op \in WordRequests
        /\ last'.op = "createHangmanGame" => hangmanGames[last'.seed] = <<>>
        /\ TierEmpty(last'.difficulty)) =>
           \E words \in {enrichedWords'[last'.difficulty]} :
               /\ last'.requests = 1
               /\ IF words = <<>>
                  THEN /\ last'.error = NoWords
                       /\ last'.ret = <<>>
                       /\ hangmanGames' = hangmanGames
                  ELSE /\ last'.error = ""
                       /\ last'.ret # <<>>
                       /\ \E i \in 1..Len(words) : last'.ret[1].word = words[i].word]_vars

\* C17's case: createHangmanGame found the tier easy empty, the provider answered with a
\* word of another tier only, and the call failed and stored no game
C17_Witness ==
    /\ last.op = "createHangmanGame"
    /\ last.difficulty = "easy"
    /\ last.found = 0
    /\ last.requests = 1
    /\ last.error = NoWords
    /\ enrichedWords["easy"] = <<>>
    /\ Len(enrichedWords["medium"]) = 1
    /\ hangmanGames[last.seed] = <<>>

\* C20: when a word is requested and the tier's pool in memory is empty (after the first
\* load), the pool is read again from the store: the provider is requested only if the
\* tier's hash is empty too, and when the hash holds words, that another process saved
\* after the first load for instance, the request returns one of them
C20_RereadsStore ==
    [][(/\ last'.op \in WordRequests
        /\ last'.op = "createHangmanGame" => hangmanGames[last'.seed] = <<>>
        /\ isInitialized
        /\ enrichedWords[last'.difficulty] = <<>>) =>
           IF DOMAIN redisWords[last'.difficulty] = {}
           THEN last'.requests = 1
           ELSE /\ last'.requests = 0
                /\ last'.error = ""
                /\ last'.ret # <<>>
                /\ last'.ret[1].word \in DOMAIN redisWords[last'.difficulty]]_vars

\* C20's case: the hash of medium holds a word that another process saved, the tier medium
\* of the pool in memory is empty, and a request for a medium word called the provider,
\* which failed, and ended with "No words available"
C20_Witness ==
    /\ last.op = "getWordByIndex"
    /\ last.difficulty = "medium"
    /\ last.requests = 1
    /\ last.error = NoWords
    /\ enrichedWords["medium"] = <<>>
    /\ DOMAIN redisWords["medium"] = {schule}

-----------------------------------------------------------------------------
(* Properties of the word pool under calls that overlap *)

\* the pool holds the word, compared case-insensitively
InPool(pool, word) ==
    \E t \in Tiers : \E i \in 1..Len(pool[t]) : SameWord(pool[t][i].word, word)

\* C21: the pool in memory only grows: a word that it holds (appended by addWord or by an
\* enrichment call) is in it in every later state, under any interleaving of the calls,
\* also of calls that overlap while the first load of initialize() awaits the store
C21_PoolOnlyGrows ==
    [][\A t \in Tiers : \A i \in 1..Len(enrichedWords[t]) :
           InPool(enrichedWords', enrichedWords[t][i].word)]_vars

\* C21's case: addWord("Apfel") has returned true and the pool does not hold the word
C21_Witness ==
    /\ last.op = "addWord"
    /\ last.ret = 1
    /\ ~InPool(enrichedWords, last.words[1])

\* C25: when addWord, enrichWithRandomGermanWords and searchAndAddWords calls overlap in
\* one process, interleaved at their awaits, the pool in memory never holds the same word
\* twice, compared case-insensitively
C25_UniquenessOverlap ==
    \A t1 \in Tiers, t2 \in Tiers :
        \A i \in 1..Len(enrichedWords[t1]), j \in 1..Len(enrichedWords[t2]) :
            SameWord(enrichedWords[t1][i].word, enrichedWords[t2][j].word) =>
                (t1 = t2 /\ i = j)

\* C25's case: two calls of searchAndAddWords have returned 1 and 2, and the pool holds
\* "apfel" and "Apfel"
C25_Witness ==
    /\ last.op = "searchAndAddWords"
    /\ isInitialized
    /\ \A r \in Calls : calls[r].pc = "idle"
    /\ Len(enrichedWords["easy"]) = 2
    /\ SameWord(enrichedWords["easy"][1].word, enrichedWords["easy"][2].word)

-----------------------------------------------------------------------------
(* Properties of the submit-result handler with a store that can fail *)

\* the handler has just answered a request in which a command of the store failed
AnsweredFailure == last.op = "submitResult" /\ "error" \in DOMAIN last

\* C22: a failure of the store inside the submit-result handler (in getUserState,
\* updateUserState or saveUserResult) is answered with the status 500 and a message that
\* does not contain the text of the internal error.
C22_InternalFailureIs500 ==
    AnsweredFailure => (last.status = 500 /\ ~Includes(last.message, last.error))

\* C22's case: the store failed while the user's state was loaded; the answer is a 400
\* whose message ends with the store's error text
C22_Witness ==
    /\ AnsweredFailure
    /\ last.at = "getUserState"
    /\ last.status = 400
    /\ last.message = ResultErrorPrefix \o EIO

\* C29: when submit-result is answered with an error status, the user's stored streak,
\* maxStreak and lastPlayed and the stored results are what they were when the request
\* arrived: the streak update and the result's record are stored both or neither.
C29_ErrorLeavesStateUnchanged ==
    (AnsweredFailure /\ last.status >= 400 /\ \A r \in Reqs : requests[r].pc = "idle") =>
        \A k \in DOMAIN userStore : userStore[k] = last.before[k]

\* C29's case: saveUserResult failed after updateUserState had written: the answer is an
\* error, the stored streak is no longer the one the request found, and the result of the
\* game is not recorded
C29_Witness ==
    /\ AnsweredFailure
    /\ last.at = "saveUserResult"
    /\ last.status = 400
    /\ \A r \in Reqs : requests[r].pc = "idle"
    /\ userStore["streak"] # last.before["streak"]
    /\ last.seed \notin userStore["played"]

\* C28: a submit-result whose list of answers is empty is not counted as passed: when it
\* is answered, the stored streak and maxStreak are not greater than the ones stored when
\* it arrived.
C28_EmptyGameNotPassed ==
    [][ \A r \in Reqs : (Responds(r) /\ requests[r].answers = <<>>) =>
            /\ parseStored(userStore'["streak"]) <= parseStored(requests[r].stored["streak"])
            /\ parseStored(userStore'["maxStreak"]) <= parseStored(requests[r].stored["maxStreak"])
      ]_vars

\* C28's case: a game of no answers arrived when no streak was stored; updateUserState
\* has written the streak 1 and the maxStreak 1
C28_Witness ==
    \E r \in Reqs :
        /\ HasWritten(r)
        /\ requests[r].answers = <<>>
        /\ requests[r].stored["streak"] = <<>>
        /\ userStore["streak"] = <<NatToString(1)>>
        /\ userStore["maxStreak"] = <<NatToString(1)>>

-----------------------------------------------------------------------------
(* Properties of the word-match game *)

\* C26: an item that is skipped or whose timer runs out is recorded as incorrect
\* (correct = false), whatever the item's answerKey.
C26_SkippedIsIncorrect ==
    last.op = "handleTimerComplete" => ~last.answer.correct

\* C26's case: the item w2, whose answerKey is "A", was skipped and its answer is
\* recorded with the pick "A" as correct
C26_Witness ==
    /\ last.op = "handleTimerComplete"
    /\ last.item = WordMatchItem(2)
    /\ last.answer.pick = "A"
    /\ last.answer.correct

-----------------------------------------------------------------------------
(* Properties of seededShuffle *)

\* C23: seededShuffle returns a permutation of its input for every seed, so every item of
\* a puzzle that getDailyPuzzle generated (author 'system') is an element of the stored
\* word bank, and none is undefined.
C23_ItemsFromBank ==
    (last.op = "getDailyPuzzle" /\ ~last.threw /\ last.ret.author = "system") =>
        \A i \in DOMAIN last.ret.items :
            /\ last.ret.items[i] # Undefined
            /\ \E j \in DOMAIN wordBank[1] : wordBank[1][j] = last.ret.items[i]

\* C23's case: getDailyPuzzle generated the puzzle of the seed 2026-11-02:de:reddit, whose
\* 32-bit hash is negative, from the 12 default words: the shuffle has read and written
\* negative indices and some of the 8 items returned are undefined
C23_Witness ==
    /\ last.op = "getDailyPuzzle" /\ ~last.threw
    /\ last.seed = redditSeed(Today, De)
    /\ last.ret.author = "system"
    /\ Len(last.ret.items) = 8
    /\ \E i \in DOMAIN last.ret.items : last.ret.items[i] = Undefined
    /\ hashSeed(last.seed, 1, [hi |-> 0, lo |-> 0]).hi >= 32768

-----------------------------------------------------------------------------
(* Properties of the stored streak under requests that overlap *)

\* C24: in every state of the store, the stored maxStreak is greater than or equal to the
\* stored streak, also when submit-result requests interleave at their reads and writes.
C24_MaxStreakAtLeastStreak ==
    parseStored(userStore["maxStreak"]) >= parseStored(userStore["streak"])

\* C24's case: two requests overlapped and both have answered; the store is left with a
\* streak of 2 and a maxStreak of 1
C24_Witness ==
    /\ \A r \in Reqs : requests[r].pc = "idle"
    /\ last.op = "submitResult"
    /\ userStore["streak"] = <<NatToString(2)>>
    /\ userStore["maxStreak"] = <<NatToString(1)>>

-----------------------------------------------------------------------------
(* Properties of the daily hangman game's difficulty *)

\* C27: the game createHangmanGame(date, language, difficulty) returns has the requested
\* difficulty and a word of that difficulty's pool, also when the same date and language
\* were asked for before with another difficulty.
C27_RequestedDifficulty ==
    (last.op = "createHangmanGame" /\ last.ret # <<>>) =>
        /\ last.ret[1].difficulty = last.difficulty
        /\ \E i \in DOMAIN enrichedWords[last.difficulty] :
               enrichedWords[last.difficulty][i].word = last.ret[1].word

\* C27's case: createHangmanGame was asked for a game of the tier medium and returned the
\* stored game of the day, whose difficulty is easy
C27_Witness ==
    /\ last.op = "createHangmanGame"
    /\ last.difficulty = "medium"
    /\ last.ret # <<>>
    /\ last.ret[1].difficulty = "easy"
    /\ hangmanGames[last.seed] = last.ret

-----------------------------------------------------------------------------
(* Properties of the router *)

\* C30: GET /api/puzzle/reddit is served by the Reddit-puzzle handler and GET
\* /api/puzzle/today by the today handler, never by the handler of /api/puzzle/:seed: no
\* puzzle is created or returned whose seed is the literal "reddit" or "today".
C30_LiteralRoutesFirst ==
    /\ puzzles[SegReddit] = <<>> /\ puzzles[SegToday] = <<>>
    /\ last.op = "getDailyPuzzle" => last.seed \notin {SegReddit, SegToday}

\* C30's case: a GET /api/puzzle/reddit was handled by getDailyPuzzle("reddit"), and a
\* puzzle of the author 'system' with the id and the date "reddit" is stored under
\* wm:puzzle:reddit; no puzzle is stored under today's Reddit seed
C30_Witness ==
    /\ last.op = "getDailyPuzzle" /\ last.seed = SegReddit
    /\ puzzles[SegReddit] # <<>>
    /\ puzzles[SegReddit][1].author = "system"
    /\ puzzles[SegReddit][1].date = SegReddit
    /\ puzzles[redditSeed(Today, De)] = <<>>

=============================================================================
